---- MODULE Spec2Model ----
(***************************************************************************)
(* Scheduling pipeline of the social-media service: schedule_post          *)
(* (routes/schedular.py), the Scheduled Post Store (database/crud.py), the *)
(* periodic trigger and cleanup jobs (services/cleanup_service.py) and the *)
(* calendar notification handler (services/google_calender.py).            *)
(*                                                                         *)
(* Time is counted in minutes.  External systems (Drive, Calendar, the     *)
(* database, the Graph API) answer nondeterministically: every call may    *)
(* succeed or fail.                                                        *)
(***************************************************************************)
EXTENDS Integers, Sequences, FiniteSets, TLC

VARIABLES
    store,      \* table scheduled_posts: sequence of rows, row id = index
    now,        \* wall clock, in minutes
    ticks,      \* number of clock advances so far (bounds the clock)
    platform,   \* per post id: how many times the platform accepted a publish
    trig,       \* per trigger-job run: position in check_and_trigger_posts
    clean,      \* position of the cleanup job in check_and_delete_posts
    lastReq,    \* the latest scheduling request: its endpoint and, for
                \* schedule_post, the outcomes of its external calls
    resp,       \* HTTP response to the latest scheduling request
    inline,     \* ids of the posts webhook_schedule published inline
    call        \* the latest call of a library function, with its result

vars == <<store, now, ticks, platform, trig, clean, lastReq, resp, inline, call>>

---------------------------------------------------------------------------
(* Bounds of the model *)

MaxPosts == 1
MaxTicks == 2
NumRuns == 1
\* rows of the tables on which a single handler call is examined
MaxRows == 2
\* image URLs of one carousel
MaxChildren == 2

PostIds == 1..MaxPosts
Runs == 1..NumRuns

\* inputs of a scheduling request
PostTypes == {"static", "story"}
SchedTimes == {1}
\* how often the platform is watched publishing one post
PublishCounts == {0, 1, 2}
\* what happens to one selected media reference during the initial upload:
\* staged in R2 and archived, archived only, or not resolvable
MediaOutcomes == {"r2", "drive", "missing"}
Selections == {<<o>> : o \in MediaOutcomes}

---------------------------------------------------------------------------
(* Program constants *)

DELETE_DELAY_HOURS == 1
MINUTES_PER_HOUR == 60
TRIGGER_WINDOW_MINUTES == 1
MAX_INSTANCES == 1

---------------------------------------------------------------------------
(* References to external objects.  Python's None is the reference of kind *)
(* "None"; it is the only falsy one.                                       *)

Ref(kind, n, post_type, scheduled_time) ==
    [kind |-> kind, n |-> n, post_type |-> post_type, time |-> scheduled_time]

None == Ref("None", 0, "", 0)

Truthy(x) == x.kind # "None"

Or(x, y) == IF Truthy(x) THEN x ELSE y

---------------------------------------------------------------------------
(* Media metadata lists.  A Python value that is either None or a list of  *)
(* entries; the same shape is the TEXT column media_paths (NULL or JSON).  *)

MediaNone == [null |-> TRUE, entries |-> <<>>]

MediaList(entries) == [null |-> FALSE, entries |-> entries]

\* Python truthiness of a media list: None and [] are falsy
MediaTruthy(m) == ~m.null /\ Len(m.entries) > 0

---------------------------------------------------------------------------
(* google_drive.upload_files_to_drive                                      *)
(* selected_media[i] is the fate of the i-th selected media reference;     *)
(* drive_up says whether the archive backend answers; n numbers the        *)
(* folder that is created.                                                 *)

upload_files_to_drive(selected_media, post_type, n, drive_up) ==
    IF ~drive_up
    THEN [raised |-> TRUE, folder_id |-> None, uploaded_media |-> MediaNone]
    ELSE IF \E i \in DOMAIN selected_media : selected_media[i] = "missing"
    THEN \* the created folder is deleted again and the upload raises
         [raised |-> TRUE, folder_id |-> None, uploaded_media |-> MediaNone]
    ELSE [raised |-> FALSE,
          folder_id |-> Ref("folder", n, post_type, 0),
          uploaded_media |->
              MediaList([i \in DOMAIN selected_media |->
                  [uploaded_file_id |-> TRUE,
                   r2_url |-> (selected_media[i] = "r2")]])]

(* google_calender.create_calendar_event: the id of the created event, or  *)
(* an exception                                                            *)
create_calendar_event(cal, n, post_type) ==
    IF cal = "ok"
    THEN [raised |-> FALSE, event_id |-> Ref("event", n, post_type, 0)]
    ELSE [raised |-> TRUE, event_id |-> None]

---------------------------------------------------------------------------
(* database/crud.py                                                        *)

\* json.dumps(media_paths) if media_paths else None
media_paths_json(media_paths) ==
    IF MediaTruthy(media_paths) THEN media_paths ELSE MediaNone

\* the row that add_scheduled_post inserts
new_row(post_type, scheduled_time, folder_id, event_id, media_paths) ==
    [post_type |-> post_type,
     scheduled_time |-> scheduled_time,
     google_drive_folder_id |-> folder_id,
     google_calendar_event_id |-> event_id,
     status |-> "scheduled",
     media_paths |-> media_paths_json(media_paths)]

\* faulty variant: the statement is committed although the call raises
add_scheduled_post_commits_then_raises(rows, post_type, scheduled_time, folder_id, event_id, media_paths, db_up) ==
    [raised |-> ~db_up,
     rows |-> Append(rows, new_row(post_type, scheduled_time, folder_id,
                                   event_id, media_paths))]

\* INSERT of one row; the column status defaults to 'scheduled'.
\* db_up says whether the database executes and commits the statement.
add_scheduled_post(rows, post_type, scheduled_time, folder_id, event_id, media_paths, db_up) ==
    IF db_up
    THEN [raised |-> FALSE,
          rows |-> Append(rows, new_row(post_type, scheduled_time, folder_id,
                                        event_id, media_paths))]
    ELSE [raised |-> TRUE, rows |-> rows]

\* UPDATE scheduled_posts SET status = new_status WHERE id = post_id
update_post_status(rows, post_id, new_status) ==
    [rows EXCEPT ![post_id].status = new_status]

\* faulty variant: the UPDATE without its status condition
cancel_post_by_event_id_any_status(rows, event_id) ==
    [id \in DOMAIN rows |->
        IF rows[id].google_calendar_event_id = event_id
        THEN [rows[id] EXCEPT !.status = "cancelled"]
        ELSE rows[id]]

\* UPDATE ... SET status = 'cancelled'
\* WHERE google_calendar_event_id = event_id AND status = 'scheduled'
cancel_post_by_event_id(rows, event_id) ==
    [id \in DOMAIN rows |->
        IF rows[id].google_calendar_event_id = event_id
           /\ rows[id].status = "scheduled"
        THEN [rows[id] EXCEPT !.status = "cancelled"]
        ELSE rows[id]]

\* the sequences that list every element of the set S once
Orderings(S) ==
    {q \in [1..Cardinality(S) -> S] :
        \A i, j \in 1..Cardinality(S) : i # j => q[i] # q[j]}

\* faulty variant: the comparison of the query inverted
find_posts_for_deletion_newer_than(rows, t, delay_hours) ==
    Orderings({id \in DOMAIN rows :
        /\ rows[id].scheduled_time > t - delay_hours * MINUTES_PER_HOUR
        /\ rows[id].status = "scheduled"})

\* SELECT ... WHERE scheduled_time < now - delay AND status = 'scheduled'
\* (no ORDER BY: the rows come in any order); each result is a list of ids
find_posts_for_deletion(rows, t, delay_hours) ==
    Orderings({id \in DOMAIN rows :
        /\ rows[id].scheduled_time < t - delay_hours * MINUTES_PER_HOUR
        /\ rows[id].status = "scheduled"})

\* faulty variant: the query without its status condition
find_posts_to_trigger_any_status(rows, t) ==
    {q \in Orderings({id \in DOMAIN rows :
            /\ rows[id].scheduled_time >= t - TRIGGER_WINDOW_MINUTES
            /\ rows[id].scheduled_time <= t}) :
        \A i, j \in DOMAIN q :
            i < j => rows[q[i]].scheduled_time <= rows[q[j]].scheduled_time}

\* faulty variant: the query without its ORDER BY clause
find_posts_to_trigger_unordered(rows, t) ==
    Orderings({id \in DOMAIN rows :
        /\ rows[id].scheduled_time >= t - TRIGGER_WINDOW_MINUTES
        /\ rows[id].scheduled_time <= t
        /\ rows[id].status = "scheduled"})

\* SELECT ... WHERE scheduled_time >= now - 1 minute AND scheduled_time <= now
\* AND status = 'scheduled' ORDER BY scheduled_time ASC
find_posts_to_trigger(rows, t) ==
    {q \in Orderings({id \in DOMAIN rows :
            /\ rows[id].scheduled_time >= t - TRIGGER_WINDOW_MINUTES
            /\ rows[id].scheduled_time <= t
            /\ rows[id].status = "scheduled"}) :
        \A i, j \in DOMAIN q :
            i < j => rows[q[i]].scheduled_time <= rows[q[j]].scheduled_time}

---------------------------------------------------------------------------
(* routes/schedular.py: schedule_post                                      *)

\* the HTTPException(500) raised by the outer except clause
HTTPException(code) ==
    [status_code |-> code, folder_id |-> None, event_id |-> None,
     webhook_sent |-> FALSE, webhook_status |-> "error"]

\* faulty variant: the response reports the publish request as sent
ScheduleResponse_reporting_sent(folder_id, event_id) ==
    IF Truthy(folder_id) /\ Truthy(event_id)
    THEN [status_code |-> 200, folder_id |-> folder_id, event_id |-> event_id,
          webhook_sent |-> TRUE, webhook_status |-> "sent"]
    ELSE HTTPException(500)

\* schemas.ScheduleResponse: folder_id and event_id are declared str, so
\* building the response with None for either raises a validation error,
\* which the outer except clause of schedule_post turns into a 500.
ScheduleResponse(folder_id, event_id) ==
    IF Truthy(folder_id) /\ Truthy(event_id)
    THEN [status_code |-> 200, folder_id |-> folder_id, event_id |-> event_id,
          webhook_sent |-> FALSE, webhook_status |-> "pending"]
    ELSE HTTPException(500)

\* step 1: the upload, with its exception swallowed
drive_step(selected_media, post_type, n, drive_up) ==
    LET u == upload_files_to_drive(selected_media, post_type, n, drive_up)
    IN  IF u.raised
        THEN [drive_upload_success |-> FALSE, folder_id |-> None,
              uploaded_media |-> MediaNone]
        ELSE [drive_upload_success |->
                  (Truthy(u.folder_id) /\ ~u.uploaded_media.null),
              folder_id |-> u.folder_id,
              uploaded_media |-> u.uploaded_media]

\* faulty variant: the calendar event is created whatever the upload gave
calendar_step_unconditional(d, cal, n, post_type) ==
    [called |-> TRUE,
     event_id |-> create_calendar_event(cal, n, post_type).event_id]

\* step 2: the calendar event, only after a successful upload
calendar_step(d, cal, n, post_type) ==
    IF d.drive_upload_success /\ Truthy(d.folder_id)
    THEN [called |-> TRUE,
          event_id |-> create_calendar_event(cal, n, post_type).event_id]
    ELSE [called |-> FALSE, event_id |-> None]

\* fallback references of step 3
final_folder_id(folder_id, post_type, scheduled_time) ==
    Or(folder_id, Ref("no_drive", 0, post_type, scheduled_time))

final_event_id(event_id, post_type, scheduled_time) ==
    Or(event_id, Ref("no_calendar", 0, post_type, scheduled_time))

final_uploaded_media(uploaded_media) ==
    IF MediaTruthy(uploaded_media) THEN uploaded_media ELSE MediaList(<<>>)

\* the whole handler: the table afterwards and the response
schedule_post(rows, req, drive_up, cal, db_up) ==
    LET n == Len(rows) + 1
        d == drive_step(req.selected_media, req.post_type, n, drive_up)
        c == calendar_step(d, cal, n, req.post_type)
        ins == add_scheduled_post(rows, req.post_type, req.scheduled_time,
                   final_folder_id(d.folder_id, req.post_type,
                                   req.scheduled_time),
                   final_event_id(c.event_id, req.post_type,
                                  req.scheduled_time),
                   final_uploaded_media(d.uploaded_media), db_up)
    IN  [rows |-> ins.rows,
         calendar_called |-> c.called,
         response |-> IF ins.raised
                      THEN HTTPException(500)
                      ELSE ScheduleResponse(d.folder_id, c.event_id)]

\* how the upload of a selection ends
UploadOutcome(selected_media, drive_up) ==
    IF ~drive_up THEN "unreachable"
    ELSE IF \E i \in DOMAIN selected_media : selected_media[i] = "missing"
    THEN "missing"
    ELSE "ok"

NoRequest ==
    [endpoint |-> "none", upload |-> "none", calendar |-> "none",
     db |-> "none"]

SchedulePost ==
    /\ Len(store) < MaxPosts
    /\ \E post_type \in PostTypes, scheduled_time \in SchedTimes,
          selected_media \in Selections, drive_up \in BOOLEAN,
          cal \in {"ok", "raise"}, db_up \in BOOLEAN :
         LET req == [post_type |-> post_type,
                     scheduled_time |-> scheduled_time,
                     selected_media |-> selected_media]
             out == schedule_post(store, req, drive_up, cal, db_up)
         IN  /\ store' = out.rows
             /\ resp' = out.response
             /\ lastReq' =
                  [endpoint |-> "schedule",
                   upload |-> UploadOutcome(selected_media, drive_up),
                   calendar |-> IF out.calendar_called THEN cal ELSE "skipped",
                   db |-> IF db_up THEN "ok" ELSE "fail"]
    /\ UNCHANGED <<now, ticks, platform, trig, clean, inline, call>>

---------------------------------------------------------------------------
(* The publish operation of a post type and the outcomes of a publish call *)

CarouselTypes ==
    {"carousel", "carousel_2", "carousel_3", "carousel_4", "carousel_5",
     "carousel_6", "carousel_7", "carousel_8", "carousel_9", "carousel_10"}

\* faulty variant: a video is published as a photo
publish_method_video_as_photo(pt) ==
    IF pt = "static" \/ pt = "video" THEN "publish_photo"
    ELSE IF pt \in CarouselTypes THEN "publish_carousel"
    ELSE "unsupported"

\* the publish operation chosen from post_type
publish_method(pt) ==
    IF pt = "static" THEN "publish_photo"
    ELSE IF pt \in CarouselTypes THEN "publish_carousel"
    ELSE IF pt = "video" THEN "publish_video"
    ELSE "unsupported"

\* what the Publish Target Client can do with one call: return (True, _)
\* after the platform published, return (False, _), raise before the
\* platform accepted anything, or raise (time out) after it published
PublishOutcomes ==
    {"returned_true", "returned_false", "raised", "raised_after_accept"}

---------------------------------------------------------------------------
(* routes/webhook.py: webhook_schedule                                     *)

\* how far the request gets before the row is inserted: fetching the media
\* bytes, the Drive upload or the calendar event can fail (HTTP 502), or no
\* public JPEG URL can be prepared (an early WebhookResponse)
WebhookSteps ==
    {"fetch_failed", "upload_failed", "calendar_failed", "no_public_url", "ok"}

WebhookResponse(folder_id, event_id, webhook_sent) ==
    IF Truthy(folder_id) /\ Truthy(event_id)
    THEN [status_code |-> 200, folder_id |-> folder_id, event_id |-> event_id,
          webhook_sent |-> webhook_sent,
          webhook_status |-> IF webhook_sent THEN "published" ELSE "failed"]
    ELSE HTTPException(500)

\* what the inline publish call can do: without a publish source (a post
\* type that is neither static, carousel nor video) the platform accepts
\* nothing
InlineOutcomes(post_type) ==
    IF publish_method(post_type) = "unsupported"
    THEN {"returned_false", "raised"}
    ELSE PublishOutcomes

\* the handler: rows after it, its response, whether the platform published
\* the post and whether the publish call returned success
webhook_schedule(rows, req, step, db_up, outcome) ==
    LET n == Len(rows) + 1
        folder_id == Ref("folder", n, req.post_type, 0)
        event_id == Ref("event", n, req.post_type, 0)
        uploaded_media ==
            MediaList(<<[uploaded_file_id |-> TRUE, r2_url |-> TRUE]>>)
        ins == add_scheduled_post(rows, req.post_type, req.scheduled_time,
                                  folder_id, event_id, uploaded_media, db_up)
        quiet == [rows |-> rows, accepted |-> FALSE, sent |-> FALSE]
    IN  IF step \in {"fetch_failed", "upload_failed", "calendar_failed"}
        THEN quiet @@ [response |-> HTTPException(502)]
        ELSE IF step = "no_public_url"
        THEN quiet @@ [response |-> WebhookResponse(folder_id, event_id, FALSE)]
        ELSE IF ins.raised
        THEN quiet @@ [response |-> HTTPException(500)]
        ELSE [rows |-> ins.rows,
              accepted |-> outcome \in {"returned_true", "raised_after_accept"},
              sent |-> (outcome = "returned_true"),
              response |-> WebhookResponse(folder_id, event_id,
                                           outcome = "returned_true")]

WebhookSchedule ==
    /\ Len(store) < MaxPosts
    /\ \E post_type \in PostTypes, scheduled_time \in SchedTimes,
          step \in WebhookSteps, db_up \in BOOLEAN :
       \E outcome \in InlineOutcomes(post_type) :
         LET req == [post_type |-> post_type,
                     scheduled_time |-> scheduled_time]
             out == webhook_schedule(store, req, step, db_up, outcome)
             id == Len(store) + 1
         IN  /\ store' = out.rows
             /\ resp' = out.response
             /\ platform' = IF out.accepted
                            THEN [platform EXCEPT ![id] = @ + 1]
                            ELSE platform
             /\ inline' = IF out.sent THEN inline \cup {id} ELSE inline
    /\ lastReq' = [NoRequest EXCEPT !.endpoint = "webhook"]
    /\ UNCHANGED <<now, ticks, trig, clean, call>>

---------------------------------------------------------------------------
(* services/cleanup_service.py: check_and_trigger_posts                    *)

\* one media entry of the inner loop: an existing R2 URL is taken as it is;
\* otherwise the file is downloaded from Drive by its id and re-hosted
\* (images through validate_and_prepare_image); drive_ok says whether that
\* download and re-hosting succeed.  An entry without a URL is skipped.
prepare_media(post_type, m, drive_ok) ==
    IF m.r2_url
    THEN [url |-> TRUE, normalized |-> FALSE]
    ELSE IF ~m.uploaded_file_id
    THEN [url |-> FALSE, normalized |-> FALSE]
    ELSE IF drive_ok
    THEN [url |-> TRUE, normalized |-> (post_type # "video")]
    ELSE [url |-> FALSE, normalized |-> FALSE]

\* faulty variant: the staged URLs first, then the re-hosted ones
insta_urls_staged_first(post_type, entries, drive_ok) ==
    SelectSeq([i \in DOMAIN entries |-> i], LAMBDA i : entries[i].r2_url)
    \o SelectSeq([i \in DOMAIN entries |-> i],
                 LAMBDA i : /\ ~entries[i].r2_url
                            /\ prepare_media(post_type, entries[i],
                                             drive_ok[i]).url)

\* insta_urls: the indices of the entries that gave a URL, in list order
insta_urls(post_type, entries, drive_ok) ==
    SelectSeq([i \in DOMAIN entries |-> i],
              LAMBDA i : prepare_media(post_type, entries[i], drive_ok[i]).url)

NotCalled(urls) ==
    [urls |-> urls, pub |-> "not_called", accepted |-> FALSE, write |-> FALSE]

\* the calls made once URLs are prepared and the post type is supported
publish_and_mark(urls, outcome, db_up) ==
    IF outcome = "returned_true"
    THEN [urls |-> urls, pub |-> "returned_true", accepted |-> TRUE,
          write |-> db_up]
    ELSE IF outcome = "returned_false"
    THEN [urls |-> urls, pub |-> "returned_false", accepted |-> FALSE,
          write |-> FALSE]
    ELSE [urls |-> urls, pub |-> "raised",
          accepted |-> (outcome = "raised_after_accept"), write |-> FALSE]

\* faulty variant: the loop body without its guard on missing URLs
process_post_no_url_check(row, drive_ok, outcome, db_up) ==
    IF publish_method(row.post_type) = "unsupported"
    THEN NotCalled(0)
    ELSE publish_and_mark(
             IF row.media_paths.null THEN 0
             ELSE Len(insta_urls(row.post_type, row.media_paths.entries,
                                 drive_ok)),
             outcome, db_up)

\* the body of the loop over posts_to_trigger for one row:
\*   urls     how many URLs were prepared (len(insta_urls))
\*   pub      what the publish call did ("not_called" when it was not made)
\*   accepted whether the platform published the post
\*   write    whether update_post_status(id, 'triggered') took effect
process_post(row, drive_ok, outcome, db_up) ==
    IF row.media_paths.null
    THEN NotCalled(0)   \* enumerate(None) raises; the outer except logs it
    ELSE LET urls == Len(insta_urls(row.post_type, row.media_paths.entries,
                                    drive_ok))
         IN  IF urls = 0
             THEN NotCalled(0)      \* "No valid URLs prepared": continue
             ELSE IF publish_method(row.post_type) = "unsupported"
             THEN NotCalled(urls)   \* "Unsupported post_type": continue
             ELSE publish_and_mark(urls, outcome, db_up)

TrigIdle ==
    [pc |-> "idle", batch |-> <<>>, i |-> 1, urls |-> 0, pub |-> "not_called"]

\* the scheduler starts the job (max_instances runs at a time) and the job
\* reads the due posts
TriggerStart(r) ==
    /\ trig[r].pc = "idle"
    /\ Cardinality({q \in Runs : trig[q].pc # "idle"}) < MAX_INSTANCES
    /\ \A q \in Runs : q < r => trig[q].pc # "idle"
    /\ \E b \in find_posts_to_trigger(store, now) :
         trig' = [trig EXCEPT ![r] =
                     [pc |-> "loop", batch |-> b, i |-> 1, urls |-> 0,
                      pub |-> "not_called"]]
    /\ UNCHANGED <<store, now, ticks, platform, clean, lastReq, resp, inline, call>>

\* one iteration of the loop
TriggerPost(r) ==
    /\ trig[r].pc = "loop"
    /\ trig[r].i <= Len(trig[r].batch)
    /\ LET id == trig[r].batch[trig[r].i]
       IN  \E drive_ok \in [DOMAIN store[id].media_paths.entries -> BOOLEAN],
              outcome \in PublishOutcomes :
           \E db_up \in (IF outcome = "returned_true" THEN BOOLEAN ELSE {FALSE}) :
             LET res == process_post(store[id], drive_ok, outcome, db_up)
             IN  /\ res.accepted => platform[id] + 1 \in PublishCounts
                 /\ store' = IF res.write
                             THEN update_post_status(store, id, "triggered")
                             ELSE store
                 /\ platform' = IF res.accepted
                                THEN [platform EXCEPT ![id] = @ + 1]
                                ELSE platform
                 /\ trig' = [trig EXCEPT ![r].i = @ + 1,
                                          ![r].urls = res.urls,
                                          ![r].pub = res.pub]
    /\ UNCHANGED <<now, ticks, clean, lastReq, resp, inline, call>>

\* "Trigger check completed"
TriggerEnd(r) ==
    /\ trig[r].pc = "loop"
    /\ trig[r].i > Len(trig[r].batch)
    /\ trig' = [trig EXCEPT ![r] = TrigIdle]
    /\ UNCHANGED <<store, now, ticks, platform, clean, lastReq, resp, inline, call>>

---------------------------------------------------------------------------
(* services/cleanup_service.py: check_and_delete_posts                     *)

\* google_drive.delete_drive_folder: an HttpError (404 or other) is logged
\* and swallowed; anything else (missing credentials, a transport error)
\* is raised to the caller
DeleteOutcomes == {"deleted", "not_found", "http_error", "raised"}

\* faulty variant: a folder that is already gone makes the call raise
delete_drive_folder_raising_when_missing(outcome) ==
    [raised |-> (outcome \in {"raised", "not_found"})]

delete_drive_folder(outcome) == [raised |-> (outcome = "raised")]

\* the body of the loop over posts_to_delete: whether the row is marked
delete_post(outcome, db_up) ==
    IF delete_drive_folder(outcome).raised THEN FALSE ELSE db_up

CleanIdle == [pc |-> "idle", batch |-> <<>>, i |-> 1]

CleanupStart ==
    /\ clean.pc = "idle"
    /\ \E b \in find_posts_for_deletion(store, now, DELETE_DELAY_HOURS) :
         clean' = IF Len(b) = 0
                  THEN clean        \* "No posts found for deletion": return
                  ELSE [pc |-> "loop", batch |-> b, i |-> 1]
    /\ UNCHANGED <<store, now, ticks, platform, trig, lastReq, resp, inline, call>>

CleanupPost ==
    /\ clean.pc = "loop"
    /\ clean.i <= Len(clean.batch)
    /\ \E outcome \in DeleteOutcomes, db_up \in BOOLEAN :
         store' = IF delete_post(outcome, db_up)
                  THEN update_post_status(store, clean.batch[clean.i], "deleted")
                  ELSE store
    /\ clean' = [clean EXCEPT !.i = @ + 1]
    /\ UNCHANGED <<now, ticks, platform, trig, lastReq, resp, inline, call>>

CleanupEnd ==
    /\ clean.pc = "loop"
    /\ clean.i > Len(clean.batch)
    /\ clean' = CleanIdle
    /\ UNCHANGED <<store, now, ticks, platform, trig, lastReq, resp, inline, call>>

---------------------------------------------------------------------------
(* services/google_calender.py: handle_calendar_notification               *)

FetchOutcomes == {"exists", "not_found", "http_error", "error"}

\* faulty variant: every HttpError of the fetch is taken for a deletion
handle_calendar_notification_any_http_error(rows, event_id, creds_ok, fetch, db_up) ==
    IF ~creds_ok
    THEN [raised |-> TRUE, rows |-> rows]
    ELSE IF fetch \in {"not_found", "http_error"} /\ db_up
    THEN [raised |-> FALSE, rows |-> cancel_post_by_event_id(rows, event_id)]
    ELSE [raised |-> FALSE, rows |-> rows]

\* get_google_creds is called before the try block, so its failure is
\* raised to the caller; every failure after it (also a failing UPDATE of
\* cancel_post_by_event_id) is caught and logged
handle_calendar_notification(rows, event_id, creds_ok, fetch, db_up) ==
    IF ~creds_ok
    THEN [raised |-> TRUE, rows |-> rows]
    ELSE IF fetch = "not_found" /\ db_up
    THEN [raised |-> FALSE, rows |-> cancel_post_by_event_id(rows, event_id)]
    ELSE [raised |-> FALSE, rows |-> rows]

\* the body {"status": "ok"} of the acknowledgement
Acknowledged ==
    [status_code |-> 200, folder_id |-> None, event_id |-> None,
     webhook_sent |-> FALSE, webhook_status |-> "ok"]

\* routes/calendar_webhook.py: the endpoint around the handler
calendar_webhook(rows, event_id, creds_ok, fetch, db_up) ==
    LET h == handle_calendar_notification(rows, event_id, creds_ok, fetch,
                                          db_up)
    IN  [rows |-> h.rows,
         response |-> IF h.raised THEN HTTPException(500) ELSE Acknowledged]

\* the identifiers a notification can carry: the events created for the
\* stored posts
EventIds ==
    {store[id].google_calendar_event_id : id \in DOMAIN store}

\* the outcomes of one notification: credentials missing, or a fetch
\* outcome together with whether the store accepts an UPDATE
NotificationOutcomes ==
    {[creds_ok |-> FALSE, fetch |-> "no_credentials", db |-> "none"]}
    \cup {[creds_ok |-> TRUE, fetch |-> f, db |-> d] :
              f \in FetchOutcomes, d \in {"ok", "fail"}}

CalendarNotification ==
    /\ \E event_id \in {e \in EventIds : e.kind = "event"},
          o \in NotificationOutcomes :
         LET out == calendar_webhook(store, event_id, o.creds_ok, o.fetch,
                                     o.db = "ok")
         IN  store' = out.rows
    /\ UNCHANGED <<now, ticks, platform, trig, clean, lastReq, resp, inline, call>>

---------------------------------------------------------------------------
(* The clock: a minute or the cleanup delay passes.  The jobs may start at *)
(* any clock value, so a tick of a job can be late or missing.             *)

Tick ==
    /\ ticks < MaxTicks
    /\ \E d \in {1, DELETE_DELAY_HOURS * MINUTES_PER_HOUR} : now' = now + d
    /\ ticks' = ticks + 1
    /\ UNCHANGED <<store, platform, trig, clean, lastReq, resp, inline, call>>

---------------------------------------------------------------------------

NoCall == [op |-> "none"]

Init ==
    /\ store = <<>>
    /\ now = 0
    /\ ticks = 0
    /\ platform = [id \in PostIds |-> 0]
    /\ trig = [r \in Runs |-> TrigIdle]
    /\ clean = CleanIdle
    /\ lastReq = NoRequest
    /\ resp = HTTPException(0)
    /\ inline = {}
    /\ call = NoCall

Next ==
    \/ SchedulePost
    \/ \E r \in Runs : TriggerStart(r)
    \/ \E r \in Runs : TriggerPost(r)
    \/ \E r \in Runs : TriggerEnd(r)
    \/ CleanupStart
    \/ CleanupPost
    \/ CleanupEnd
    \/ CalendarNotification
    \/ Tick

Spec == Init /\ [][Next]_vars

\* the scheduling endpoint of the web form together with the trigger job
NextSchedule ==
    \/ SchedulePost
    \/ \E r \in Runs : TriggerStart(r)
    \/ \E r \in Runs : TriggerPost(r)
    \/ \E r \in Runs : TriggerEnd(r)
    \/ Tick

ScheduleSpec == Init /\ [][NextSchedule]_vars

\* the webhook-facing scheduling endpoint together with the trigger job
NextWebhook ==
    \/ WebhookSchedule
    \/ \E r \in Runs : TriggerStart(r)
    \/ \E r \in Runs : TriggerPost(r)
    \/ \E r \in Runs : TriggerEnd(r)
    \/ Tick

WebhookSpec == Init /\ [][NextWebhook]_vars

---------------------------------------------------------------------------
(* Single calls of a handler or of a library function on bounded inputs.   *)
(* The variable call holds the inputs and the result of the latest call;   *)
(* a library function is examined one call at a time.                      *)

Statuses == {"scheduled", "triggered", "cancelled", "deleted"}

\* a row as schedule_post leaves it: with a calendar event of its own, or,
\* after a failed upload, with the synthetic references
TableRow(n, has_event, status) ==
    [ IF has_event
      THEN new_row("static", 1, Ref("folder", n, "static", 0),
                   Ref("event", n, "static", 0),
                   MediaList(<<[uploaded_file_id |-> TRUE, r2_url |-> TRUE]>>))
      ELSE new_row("static", 1, final_folder_id(None, "static", 1),
                   final_event_id(None, "static", 1),
                   final_uploaded_media(MediaNone))
      EXCEPT !.status = status ]

TablesOfLen(len) ==
    {[n \in 1..len |-> TableRow(n, f[n].has_event, f[n].status)] :
        f \in [1..len -> [has_event : BOOLEAN, status : Statuses]]}

Tables == UNION {TablesOfLen(len) : len \in 0..MaxRows}

\* the identifiers a caller of the endpoint can send
ResourceIds ==
    {Ref("event", n, "static", 0) : n \in 1..MaxRows}
    \cup {final_event_id(None, "static", 1)}

CallInit ==
    /\ store \in Tables
    /\ now = 0
    /\ ticks = 0
    /\ platform = [id \in PostIds |-> 0]
    /\ trig = [r \in Runs |-> TrigIdle]
    /\ clean = CleanIdle
    /\ lastReq = NoRequest
    /\ resp = HTTPException(0)
    /\ inline = {}
    /\ call = NoCall

CalendarWebhookCall ==
    /\ \E event_id \in ResourceIds, o \in NotificationOutcomes :
         LET out == calendar_webhook(store, event_id, o.creds_ok, o.fetch,
                                     o.db = "ok")
         IN  /\ store' = out.rows
             /\ call' = [op |-> "calendar_webhook",
                         resource_id |-> event_id,
                         fetch |-> o.fetch,
                         db |-> o.db,
                         before |-> store,
                         status_code |-> out.response.status_code]
    /\ UNCHANGED <<now, ticks, platform, trig, clean, lastReq, resp, inline>>

NextCall ==
    \/ CalendarWebhookCall

CallSpec == CallInit /\ [][NextCall]_vars

---------------------------------------------------------------------------
(* services/facebook_graph.py: the Publish Target Client                   *)

\* what one HTTP POST to the Graph API can end in: status 200/201 with a
\* JSON object holding an id, with a JSON object without id, or without a
\* JSON body; another status; a network error or timeout
GraphResponses ==
    {"ok_id", "ok_no_id", "ok_no_json", "error_status", "network_error"}

\* _post and _video_post: requests.post is not guarded, so a network error
\* is raised to the caller; otherwise status code and parsed body come back
post(response) ==
    [raised |-> (response = "network_error"),
     status_ok |-> (response \in {"ok_id", "ok_no_id", "ok_no_json"}),
     json |-> (response \in {"ok_id", "ok_no_id"}),
     id |-> (response = "ok_id")]

GraphCall(kind, url) == [kind |-> kind, url |-> url]

\* the create-then-publish flow of publish_photo; responses[k] answers the
\* k-th HTTP call
create_and_publish(create, configured, responses) ==
    IF ~configured
    THEN [calls |-> <<>>, result |-> "false"]
    ELSE LET res_create == post(responses[1])
             res_publish == post(responses[2])
             first == <<GraphCall(create, 1)>>
         IN  IF res_create.raised
             THEN [calls |-> first, result |-> "raised"]
             ELSE IF ~res_create.status_ok \/ ~res_create.json
             THEN [calls |-> first, result |-> "false"]
             ELSE IF ~res_create.id
             THEN [calls |-> first, result |-> "false"]
             ELSE [calls |-> Append(first, GraphCall("publish", 0)),
                   result |-> IF res_publish.raised THEN "raised"
                              ELSE IF res_publish.status_ok THEN "true"
                              ELSE "false"]

\* faulty variant: the publish call is made whatever the create call gave
publish_photo_without_id_check(configured, responses) ==
    IF ~configured
    THEN [calls |-> <<>>, result |-> "false"]
    ELSE [calls |-> <<GraphCall("create", 1), GraphCall("publish", 0)>>,
          result |-> IF post(responses[1]).raised \/ post(responses[2]).raised
                     THEN "raised"
                     ELSE IF post(responses[2]).status_ok THEN "true"
                     ELSE "false"]

publish_photo(configured, responses) ==
    create_and_publish("create", configured, responses)

\* the same flow; the container is created on the graph-video host
publish_video(configured, responses) ==
    create_and_publish("create_video", configured, responses)

\* the loop over image_urls from the k-th URL on: it returns at the first
\* child that cannot be created
RECURSIVE create_children(_, _, _)
create_children(n, responses, k) ==
    IF k > n
    THEN [calls |-> <<>>, result |-> "created"]
    ELSE LET res == post(responses[k])
             this == <<GraphCall("child", k)>>
         IN  IF res.raised
             THEN [calls |-> this, result |-> "raised"]
             ELSE IF ~res.status_ok \/ ~res.json \/ ~res.id
             THEN [calls |-> this, result |-> "false"]
             ELSE LET rest == create_children(n, responses, k + 1)
                  IN  [calls |-> this \o rest.calls, result |-> rest.result]

\* the loop of the faulty variant below: a child that cannot be created is
\* skipped
RECURSIVE create_children_skipping(_, _, _)
create_children_skipping(n, responses, k) ==
    IF k > n
    THEN [calls |-> <<>>, result |-> "created"]
    ELSE LET res == post(responses[k])
             this == <<GraphCall("child", k)>>
             rest == create_children_skipping(n, responses, k + 1)
         IN  IF res.raised
             THEN [calls |-> this, result |-> "raised"]
             ELSE [calls |-> this \o rest.calls, result |-> rest.result]

\* faulty variant: publish_carousel going on after a failed child
publish_carousel_skipping_failed_children(configured, n, responses) ==
    IF ~configured
    THEN [calls |-> <<>>, result |-> "false"]
    ELSE LET children == create_children_skipping(n, responses, 1)
             parent == Append(children.calls, GraphCall("parent", 0))
         IN  IF children.result # "created"
             THEN children
             ELSE [calls |-> Append(parent, GraphCall("publish", 0)),
                   result |-> IF post(responses[n + 2]).status_ok
                              THEN "true" ELSE "false"]

\* publish_carousel for n image URLs; responses[n + 1] answers the parent
\* container call and responses[n + 2] the publish call
publish_carousel(configured, n, responses) ==
    IF ~configured
    THEN [calls |-> <<>>, result |-> "false"]
    ELSE LET children == create_children(n, responses, 1)
             res_parent == post(responses[n + 1])
             res_publish == post(responses[n + 2])
             parent == Append(children.calls, GraphCall("parent", 0))
         IN  IF children.result # "created"
             THEN children
             ELSE IF res_parent.raised
             THEN [calls |-> parent, result |-> "raised"]
             ELSE IF ~res_parent.status_ok \/ ~res_parent.json
                     \/ ~res_parent.id
             THEN [calls |-> parent, result |-> "false"]
             ELSE [calls |-> Append(parent, GraphCall("publish", 0)),
                   result |-> IF res_publish.raised THEN "raised"
                              ELSE IF res_publish.status_ok THEN "true"
                              ELSE "false"]

GraphCallRecord(op, configured, n, responses, out) ==
    [op |-> op, configured |-> configured, n |-> n, responses |-> responses,
     calls |-> out.calls, result |-> out.result]

PublishPhotoCall ==
    /\ call = NoCall
    /\ \E configured \in BOOLEAN, responses \in [1..2 -> GraphResponses] :
         call' = GraphCallRecord("publish_photo", configured, 1, responses,
                                 publish_photo(configured, responses))
    /\ UNCHANGED <<store, now, ticks, platform, trig, clean, lastReq, resp, inline>>

PublishVideoCall ==
    /\ call = NoCall
    /\ \E configured \in BOOLEAN, responses \in [1..2 -> GraphResponses] :
         call' = GraphCallRecord("publish_video", configured, 1, responses,
                                 publish_video(configured, responses))
    /\ UNCHANGED <<store, now, ticks, platform, trig, clean, lastReq, resp, inline>>

PublishCarouselCall ==
    /\ call = NoCall
    /\ \E configured \in BOOLEAN, n \in 0..MaxChildren :
       \E responses \in [1..(n + 2) -> GraphResponses] :
         call' = GraphCallRecord("publish_carousel", configured, n, responses,
                                 publish_carousel(configured, n, responses))
    /\ UNCHANGED <<store, now, ticks, platform, trig, clean, lastReq, resp, inline>>

---------------------------------------------------------------------------
(* services/publisher_service.py: get_media_bytes                          *)

Sources == {"r2", "drive", "http", "local"}

\* a media entry: r2_url is absent, an http(s) URL or another string;
\* uploaded_file_id is set or not; requested_path is absent, an http(s)
\* URL or a local path
MediaEntries ==
    [r2_url : {"none", "http", "other"},
     uploaded_file_id : BOOLEAN,
     requested_path : {"none", "http", "local"}]

Resolved(source) == [source |-> source, contacted |-> <<source>>]

\* the source failed (its exception is swallowed) and the next steps ran
Tried(source, rest) ==
    [source |-> rest.source, contacted |-> <<source>> \o rest.contacted]

NoSource == [source |-> "raised", contacted |-> <<>>]

\* faulty variant: the Drive file is tried before the R2 URL
get_media_bytes_drive_first(entry, reach) ==
    LET from_r2 ==
            IF entry.r2_url = "http"
            THEN IF reach["r2"] THEN Resolved("r2") ELSE Tried("r2", NoSource)
            ELSE NoSource
    IN  IF entry.uploaded_file_id
        THEN IF reach["drive"] THEN Resolved("drive")
             ELSE Tried("drive", from_r2)
        ELSE from_r2

\* reach[s] says whether fetching from source s succeeds; the result names
\* the source of the returned bytes ("raised" for the RuntimeError) and the
\* sources contacted, in order
get_media_bytes(entry, reach) ==
    LET step4 ==
            IF entry.requested_path = "local"
            THEN IF reach["local"] THEN Resolved("local")
                 ELSE Tried("local", NoSource)
            ELSE NoSource
        step3 ==
            IF entry.requested_path = "http"
            THEN IF reach["http"] THEN Resolved("http")
                 ELSE Tried("http", step4)
            ELSE step4
        step2 ==
            IF entry.uploaded_file_id
            THEN IF reach["drive"] THEN Resolved("drive")
                 ELSE Tried("drive", step3)
            ELSE step3
    IN  IF entry.r2_url = "http"
        THEN IF reach["r2"] THEN Resolved("r2") ELSE Tried("r2", step2)
        ELSE step2

GetMediaBytesCall ==
    /\ call = NoCall
    /\ \E entry \in MediaEntries, reach \in [Sources -> BOOLEAN] :
         LET out == get_media_bytes(entry, reach)
         IN  call' = [op |-> "get_media_bytes", entry |-> entry,
                      reach |-> reach, source |-> out.source,
                      contacted |-> out.contacted]
    /\ UNCHANGED <<store, now, ticks, platform, trig, clean, lastReq, resp, inline>>

NextLib ==
    \/ PublishPhotoCall
    \/ PublishVideoCall
    \/ PublishCarouselCall
    \/ GetMediaBytesCall

LibSpec == Init /\ [][NextLib]_vars

---------------------------------------------------------------------------
(* services/cleanup_service.py: validate_and_prepare_image (the same code  *)
(* is nested in routes/webhook.py: webhook_schedule).  An image is its     *)
(* size in pixels; the numbers are the ones of the code, the ratios 4/5,   *)
(* 1.91 and 0.85 are kept as fractions.                                    *)

MIN_WIDTH == 320
MAX_WIDTH == 1440
MIN_RATIO_NUM == 4
MIN_RATIO_DEN == 5
MAX_RATIO_NUM == 191
MAX_RATIO_DEN == 100
START_QUALITY == 95
QUALITY_FLOOR == 40
QUALITY_FACTOR_NUM == 85
QUALITY_FACTOR_DEN == 100

\* sizes of the input images: below, at and above the width limits, flat,
\* square and tall
Widths == {1, 40, 100, 319, 320, 1000, 1440, 1441, 2000, 2881}
Heights == {1, 29, 100, 400, 1000, 1800, 4000}

\* round(n / d) of Python 3: to the nearest integer, a tie to the even one
round_half_even(n, d) ==
    LET q == n \div d
        r == n % d
    IN  IF 2 * r < d THEN q
        ELSE IF 2 * r > d THEN q + 1
        ELSE IF q % 2 = 0 THEN q ELSE q + 1

\* int(new_w / ratio) with ratio = width / height in double precision: the
\* floor of new_w * height / width; where that quotient is a whole number
\* the two roundings can leave the result just below it (40 x 29 gives 231)
resized_heights(new_w, width, height) ==
    LET q == (new_w * height) \div width
    IN  IF (new_w * height) % width = 0 /\ width # new_w * height
        THEN {q - 1, q}
        ELSE {q}

Image(width, height) == [raised |-> FALSE, width |-> width, height |-> height]

ImageError == [raised |-> TRUE, width |-> 0, height |-> 0]

\* "Resize if width out of bounds"; new_h is the value of int(new_w / ratio).
\* A height of 0 is refused by Image.resize.
resize(width, height, new_h) ==
    IF width < MIN_WIDTH \/ width > MAX_WIDTH
    THEN IF new_h < 1
         THEN ImageError
         ELSE Image(IF width < MIN_WIDTH THEN MIN_WIDTH ELSE MAX_WIDTH, new_h)
    ELSE Image(width, height)

\* img.crop to num/den, the bound of the allowed ratios nearest to the ratio
\* of the image: vertically when the target height fits, else horizontally
crop_to(width, height, num, den) ==
    LET target_h == round_half_even(width * den, num)
    IN  IF target_h <= height
        THEN Image(width, target_h)
        ELSE Image(round_half_even(height * num, den), height)

\* "Crop if aspect ratio out of bounds"
crop(width, height) ==
    IF width * MIN_RATIO_DEN < height * MIN_RATIO_NUM
    THEN crop_to(width, height, MIN_RATIO_NUM, MIN_RATIO_DEN)
    ELSE IF width * MAX_RATIO_DEN > height * MAX_RATIO_NUM
    THEN crop_to(width, height, MAX_RATIO_NUM, MAX_RATIO_DEN)
    ELSE Image(width, height)

\* the heights the resize step can compute for an image
new_heights(width, height) ==
    IF width < MIN_WIDTH THEN resized_heights(MIN_WIDTH, width, height)
    ELSE IF width > MAX_WIDTH THEN resized_heights(MAX_WIDTH, width, height)
    ELSE {height}

\* the resize and crop steps for one value of int(new_w / ratio)
resize_and_crop(width, height, new_h) ==
    LET resized == resize(width, height, new_h)
    IN  IF resized.raised THEN ImageError
        ELSE crop(resized.width, resized.height)

\* quality = int(quality * 0.85)
next_quality(quality) ==
    (quality * QUALITY_FACTOR_NUM) \div QUALITY_FACTOR_DEN

\* faulty variant: the loop ends only when the file is within the budget
loop_exit_within_budget_only(size_ok, quality) == size_ok

\* "if size <= 8 * 1024 * 1024 or quality <= 40: break"; size_ok says
\* whether the saved file is within the 8 MiB
loop_exit(size_ok, quality) == size_ok \/ quality <= QUALITY_FLOOR

\* One call of validate_and_prepare_image from the trigger job, step by
\* step.  The record in call holds the input size, the image after resize
\* and crop, the position in the function, the JPEG quality, how often the
\* file was saved, whether the latest save was within the size budget and
\* whether the temp file tmp_path exists.
Normalizing ==
    call.op = "validate_and_prepare_image"

\* Image.open, resize and crop; an exception is logged and raised again
OpenImage ==
    /\ call = NoCall
    /\ \E width \in Widths, height \in Heights :
       \E new_h \in new_heights(width, height) :
         LET img == resize_and_crop(width, height, new_h)
         IN  call' = [op |-> "validate_and_prepare_image",
                      width |-> width, height |-> height, image |-> img,
                      pc |-> IF img.raised THEN "raised" ELSE "encode",
                      quality |-> START_QUALITY, saves |-> 0,
                      size_ok |-> FALSE, tmp_file |-> FALSE]
    /\ UNCHANGED <<store, now, ticks, platform, trig, clean, lastReq, resp, inline>>

\* one pass of "while True": save the JPEG to tmp_path, look at its size
SaveJpeg ==
    /\ Normalizing
    /\ call.pc = "encode"
    /\ \E size_ok \in BOOLEAN :
         call' = [call EXCEPT
                     !.saves = @ + 1,
                     !.size_ok = size_ok,
                     !.tmp_file = TRUE,
                     !.pc = IF loop_exit(size_ok, call.quality)
                            THEN "upload" ELSE "encode",
                     !.quality = IF loop_exit(size_ok, call.quality)
                                 THEN @ ELSE next_quality(@)]
    /\ UNCHANGED <<store, now, ticks, platform, trig, clean, lastReq, resp, inline>>

\* the upload of tmp_path to R2 (or to Drive): os.remove(tmp_path) follows
\* a successful upload only; an exception is logged and raised again
UploadImage ==
    /\ Normalizing
    /\ call.pc = "upload"
    /\ \E uploaded \in BOOLEAN :
         call' = [call EXCEPT
                     !.pc = IF uploaded THEN "returned" ELSE "raised",
                     !.tmp_file = IF uploaded THEN FALSE ELSE @]
    /\ UNCHANGED <<store, now, ticks, platform, trig, clean, lastReq, resp, inline>>

\* the rest of the trigger job's work on the post: the exception of the
\* image is caught ("Error preparing media"), and the loop over
\* temp_r2_files removes nothing because no path is ever added to that list
FinishPost ==
    /\ Normalizing
    /\ call.pc \in {"returned", "raised"}
    /\ call' = [call EXCEPT !.pc = "post_done"]
    /\ UNCHANGED <<store, now, ticks, platform, trig, clean, lastReq, resp, inline>>

NextImage ==
    \/ OpenImage
    \/ SaveJpeg
    \/ UploadImage
    \/ FinishPost

\* the function runs to its end: a started save loop keeps taking steps
ImageSpec == Init /\ [][NextImage]_vars /\ WF_vars(SaveJpeg)

---------------------------------------------------------------------------
(* Two runs of check_and_trigger_posts at the same time: two server        *)
(* processes on one database, each with a scheduler of its own (a          *)
(* scheduler keeps to max_instances only among its own runs).              *)

Workers == {1, 2}

\* a post as schedule_post stores it, with one media entry that is staged
\* in R2 or only archived in Drive
DueRow(n, scheduled_time, staged, status) ==
    [ new_row("static", scheduled_time, Ref("folder", n, "static", 0),
              Ref("event", n, "static", 0),
              MediaList(<<[uploaded_file_id |-> TRUE, r2_url |-> staged]>>))
      EXCEPT !.status = status ]

DueTablesOfLen(len) ==
    {[n \in 1..len |-> DueRow(n, f[n].time, f[n].staged, f[n].status)] :
        f \in [1..len -> [time : {0, 1}, staged : BOOLEAN,
                          status : {"scheduled", "triggered"}]]}

\* faulty variant: the rows that were read are marked in the same statement
rows_after_fetch_marking_selected(rows, selected) ==
    [id \in DOMAIN rows |->
        IF id \in {selected[i] : i \in DOMAIN selected}
        THEN [rows[id] EXCEPT !.status = "triggered"]
        ELSE rows[id]]

\* connection.execute_query with fetch = 'all': the SELECT is executed and
\* fetched, nothing is written and nothing is locked
rows_after_fetch(rows, selected) == rows

OverlapInit ==
    /\ store \in UNION {DueTablesOfLen(len) : len \in 0..MaxPosts}
    /\ now = 1
    /\ ticks = 0
    /\ platform = [id \in PostIds |-> 0]
    /\ trig = [r \in Workers |-> TrigIdle]
    /\ clean = CleanIdle
    /\ lastReq = NoRequest
    /\ resp = HTTPException(0)
    /\ inline = {}
    /\ call = NoCall

\* the scheduler of process r starts the job when its own previous run has
\* ended; the job reads the due posts
TriggerStartConcurrently(r) ==
    /\ trig[r].pc = "idle"
    /\ \E b \in find_posts_to_trigger(store, now) :
         /\ trig' = [trig EXCEPT ![r] =
                        [pc |-> "loop", batch |-> b, i |-> 1, urls |-> 0,
                         pub |-> "not_called"]]
         /\ store' = rows_after_fetch(store, b)
    /\ UNCHANGED <<now, ticks, platform, clean, lastReq, resp, inline, call>>

NextOverlap ==
    \/ \E r \in Workers : TriggerStartConcurrently(r)
    \/ \E r \in Workers : TriggerPost(r)
    \/ \E r \in Workers : TriggerEnd(r)

OverlapSpec == OverlapInit /\ [][NextOverlap]_vars

---------------------------------------------------------------------------
(* utils/retry.py: retry                                                   *)

\* the largest retries argument tried (the default is 3)
MaxRetries == 3

\* what one call of func does: return a value, raise an exception of the
\* classes in `exceptions`, or raise another exception
FuncOutcomes ==
    [kind : {"returns"}, value : {"a", "b"}]
    \cup [kind : {"raises"}, value : {"E1", "E2"}]
    \cup [kind : {"raises_other"}, value : {"E3"}]

\* the loop "while attempt < retries" from the given attempt on;
\* outcomes[k] is what the k-th call of func does, last_exc the exception
\* caught last ("None" before the first one)
RECURSIVE retry_loop(_, _, _, _)
retry_loop(attempt, retries, outcomes, last_exc) ==
    IF attempt < retries
    THEN LET out == outcomes[attempt + 1]
         IN  IF out.kind = "returns"
             THEN [kind |-> "returned", value |-> out.value,
                   calls |-> attempt + 1]
             ELSE IF out.kind = "raises_other"
             THEN [kind |-> "raised", value |-> out.value,
                   calls |-> attempt + 1]
             ELSE retry_loop(attempt + 1, retries, outcomes, out.value)
    ELSE \* "raise last_exc": raising None is a TypeError
         [kind |-> "raised",
          value |-> IF last_exc = "None" THEN "TypeError" ELSE last_exc,
          calls |-> attempt]

retry(retries, outcomes) == retry_loop(0, retries, outcomes, "None")

RetryCall ==
    /\ call = NoCall
    /\ \E retries \in 0..MaxRetries,
          outcomes \in [1..MaxRetries -> FuncOutcomes] :
         LET out == retry(retries, outcomes)
         IN  call' = [op |-> "retry", retries |-> retries,
                      outcomes |-> outcomes, kind |-> out.kind,
                      value |-> out.value, calls |-> out.calls]
    /\ UNCHANGED <<store, now, ticks, platform, trig, clean, lastReq, resp, inline>>

NextRetry ==
    \/ RetryCall

RetrySpec == Init /\ [][NextRetry]_vars

---------------------------------------------------------------------------
(* utils/retry.py: the loop of retry step by step.  call holds attempt and *)
(* last_exc, the position (in the loop, returned, raised) and the log of   *)
(* what each call of func did.                                             *)

\* time.sleep raises ValueError for a negative length
Delays == {"nonnegative", "negative"}

\* faulty variant: one more round after the last permitted one
loop_continues_once_more(attempt, retries) == attempt <= retries

\* while attempt < retries
loop_continues(attempt, retries) == attempt < retries

RetryStart ==
    /\ call = NoCall
    /\ \E retries \in 0..MaxRetries, delay \in Delays :
         call' = [op |-> "retry_run", retries |-> retries, delay |-> delay,
                  attempt |-> 0, last_exc |-> "None", pc |-> "loop",
                  value |-> "None", log |-> <<>>]
    /\ UNCHANGED <<store, now, ticks, platform, trig, clean, lastReq, resp, inline>>

\* one round of the loop: func is called; a result is returned, an
\* exception outside `exceptions` propagates, one inside is kept in
\* last_exc and followed by the sleep
RetryAttempt ==
    /\ call.op = "retry_run"
    /\ call.pc = "loop"
    /\ loop_continues(call.attempt, call.retries)
    /\ \E out \in FuncOutcomes :
         call' = IF out.kind = "returns"
                 THEN [call EXCEPT !.pc = "returned", !.value = out.value,
                                   !.log = Append(@, out)]
                 ELSE IF out.kind = "raises_other"
                 THEN [call EXCEPT !.pc = "raised", !.value = out.value,
                                   !.log = Append(@, out)]
                 ELSE [call EXCEPT !.pc = "sleep", !.last_exc = out.value,
                                   !.log = Append(@, out)]
    /\ UNCHANGED <<store, now, ticks, platform, trig, clean, lastReq, resp, inline>>

\* time.sleep(delay * (backoff ** attempt)), then attempt += 1
RetrySleep ==
    /\ call.op = "retry_run"
    /\ call.pc = "sleep"
    /\ call' = IF call.delay = "negative"
               THEN [call EXCEPT !.pc = "raised", !.value = "ValueError"]
               ELSE [call EXCEPT !.pc = "loop", !.attempt = @ + 1]
    /\ UNCHANGED <<store, now, ticks, platform, trig, clean, lastReq, resp, inline>>

\* the loop is left: raise last_exc (raising None is a TypeError)
RetryExhausted ==
    /\ call.op = "retry_run"
    /\ call.pc = "loop"
    /\ ~loop_continues(call.attempt, call.retries)
    /\ call' = [call EXCEPT !.pc = "raised",
                            !.value = IF call.last_exc = "None"
                                      THEN "TypeError" ELSE call.last_exc]
    /\ UNCHANGED <<store, now, ticks, platform, trig, clean, lastReq, resp, inline>>

NextRetryLoop ==
    \/ RetryStart
    \/ RetryAttempt
    \/ RetrySleep
    \/ RetryExhausted

\* a call of func and the sleep come to an end, so the loop goes on
RetryLoopSpec ==
    Init /\ [][NextRetryLoop]_vars
         /\ WF_vars(RetryAttempt) /\ WF_vars(RetrySleep)
         /\ WF_vars(RetryExhausted)

---------------------------------------------------------------------------
(* services/google_drive.py: upload_files_to_drive step by step, for a     *)
(* selection of several media references.  A reference is named by its     *)
(* position in the selection.                                              *)

UploadSelections ==
    UNION {[1..len -> MediaOutcomes] : len \in 0..(MaxChildren + 1)}

\* the loop over selected_media_paths: one dict appended to uploaded_media
\* per reference that could be processed, the others go to missing_media
media_loop(selected) ==
    [uploaded_media |->
         [k \in 1..Cardinality({i \in DOMAIN selected :
                                   selected[i] # "missing"}) |->
             LET i == SelectSeq([j \in DOMAIN selected |-> j],
                                LAMBDA j : selected[j] # "missing")[k]
             IN  [selected |-> i, r2_url |-> (selected[i] = "r2")]],
     missing_media |->
         SelectSeq([j \in DOMAIN selected |-> j],
                   LAMBDA j : selected[j] = "missing")]

\* folder_up: the post folder can be created; caption_up: caption.txt can
\* be uploaded; delete_up: the delete request for the folder succeeds
upload_files_to_drive_steps(selected, folder_up, caption_up, delete_up) ==
    LET m == media_loop(selected)
    IN  IF ~folder_up
        THEN [raised |-> TRUE, folder_created |-> FALSE,
              delete_attempted |-> FALSE, folder_left |-> FALSE,
              folder_returned |-> FALSE, uploaded_media |-> <<>>]
        ELSE IF m.missing_media # <<>>
        THEN [raised |-> TRUE, folder_created |-> TRUE,
              delete_attempted |-> TRUE, folder_left |-> ~delete_up,
              folder_returned |-> FALSE, uploaded_media |-> <<>>]
        ELSE IF ~caption_up
        THEN [raised |-> TRUE, folder_created |-> TRUE,
              delete_attempted |-> FALSE, folder_left |-> TRUE,
              folder_returned |-> FALSE, uploaded_media |-> <<>>]
        ELSE [raised |-> FALSE, folder_created |-> TRUE,
              delete_attempted |-> FALSE, folder_left |-> TRUE,
              folder_returned |-> TRUE, uploaded_media |-> m.uploaded_media]

UploadCall ==
    /\ call = NoCall
    /\ \E selected \in UploadSelections,
          folder_up \in BOOLEAN, caption_up \in BOOLEAN,
          delete_up \in BOOLEAN :
         call' = [op |-> "upload_files_to_drive",
                  selected |-> selected,
                  missing_media |-> media_loop(selected).missing_media,
                  folder_up |-> folder_up,
                  caption_up |-> caption_up,
                  delete_up |-> delete_up,
                  out |-> upload_files_to_drive_steps(selected, folder_up,
                                                      caption_up, delete_up)]
    /\ UNCHANGED <<store, now, ticks, platform, trig, clean, lastReq, resp, inline>>

NextUpload ==
    \/ UploadCall

UploadSpec == Init /\ [][NextUpload]_vars

---------------------------------------------------------------------------
(* One cleanup job at work on a table of old posts, with the bookkeeping   *)
(* of check_and_delete_posts: call holds deleted_count, error_count and,   *)
(* per processed post, what the Drive call and the status write did.       *)

\* tables of posts that were due at minute 0
OldTables ==
    {t \in UNION {DueTablesOfLen(len) : len \in 0..MaxRows} :
        \A n \in DOMAIN t :
            /\ t[n].scheduled_time = 0
            /\ t[n].media_paths.entries[1].r2_url}

CleanupRunInit ==
    /\ store \in OldTables
    /\ now = DELETE_DELAY_HOURS * MINUTES_PER_HOUR + 1
    /\ ticks = 0
    /\ platform = [id \in PostIds |-> 0]
    /\ trig = [r \in Runs |-> TrigIdle]
    /\ clean = CleanIdle
    /\ lastReq = NoRequest
    /\ resp = HTTPException(0)
    /\ inline = {}
    /\ call = NoCall

CleanupRunStart ==
    /\ clean.pc = "idle"
    /\ \E b \in find_posts_for_deletion(store, now, DELETE_DELAY_HOURS) :
         /\ clean' = IF Len(b) = 0
                     THEN clean
                     ELSE [pc |-> "loop", batch |-> b, i |-> 1]
         /\ call' = [op |-> "check_and_delete_posts", deleted_count |-> 0,
                     error_count |-> 0, log |-> <<>>]
    /\ UNCHANGED <<store, now, ticks, platform, trig, lastReq, resp, inline>>

\* one iteration: delete_drive_folder, then update_post_status, both in
\* one try block whose except clause counts an error
CleanupRunPost ==
    /\ clean.pc = "loop"
    /\ clean.i <= Len(clean.batch)
    /\ \E outcome \in DeleteOutcomes :
       \E db_up \in (IF delete_drive_folder(outcome).raised
                     THEN {FALSE} ELSE BOOLEAN) :
         LET marked == delete_post(outcome, db_up)
             post_id == clean.batch[clean.i]
         IN  /\ store' = IF marked
                         THEN update_post_status(store, post_id, "deleted")
                         ELSE store
             /\ call' = [call EXCEPT
                            !.deleted_count = IF marked THEN @ + 1 ELSE @,
                            !.error_count = IF marked THEN @ ELSE @ + 1,
                            !.log = Append(@, [post_id |-> post_id,
                                               drive |-> outcome,
                                               db_up |-> db_up])]
    /\ clean' = [clean EXCEPT !.i = @ + 1]
    /\ UNCHANGED <<now, ticks, platform, trig, lastReq, resp, inline>>

\* "Cleanup complete"
CleanupRunEnd ==
    /\ clean.pc = "loop"
    /\ clean.i > Len(clean.batch)
    /\ clean' = CleanIdle
    /\ UNCHANGED <<store, now, ticks, platform, trig, lastReq, resp, inline, call>>

NextCleanupRun ==
    \/ CleanupRunStart
    \/ CleanupRunPost
    \/ CleanupRunEnd

CleanupRunSpec == CleanupRunInit /\ [][NextCleanupRun]_vars

---------------------------------------------------------------------------
(* The cleanup job run again and again by the interval trigger of the      *)
(* scheduler, on a table of posts that nothing else touches: some are      *)
(* older than the delay, some are not.  The query of a run can fail as     *)
(* well: the run then logs a critical error and ends.                      *)

StagedTables ==
    {t \in UNION {DueTablesOfLen(len) : len \in 0..MaxRows} :
        \A n \in DOMAIN t : t[n].media_paths.entries[1].r2_url}

CleanupLiveInit ==
    /\ store \in StagedTables
    /\ now = DELETE_DELAY_HOURS * MINUTES_PER_HOUR + 1
    /\ ticks = 0
    /\ platform = [id \in PostIds |-> 0]
    /\ trig = [r \in Runs |-> TrigIdle]
    /\ clean = CleanIdle
    /\ lastReq = NoRequest
    /\ resp = HTTPException(0)
    /\ inline = {}
    /\ call = NoCall

\* the job starts; find_posts_for_deletion returns the rows or raises.
\* run tells a run from the one before it (the number of the run modulo 2)
CleanupLiveStart ==
    /\ clean.pc = "idle"
    /\ \E db_up \in BOOLEAN :
       \E b \in (IF db_up
                 THEN find_posts_for_deletion(store, now, DELETE_DELAY_HOURS)
                 ELSE {<<>>}) :
         /\ clean' = IF Len(b) = 0
                     THEN clean
                     ELSE [pc |-> "loop", batch |-> b, i |-> 1]
         /\ call' = [op |-> "check_and_delete_posts", deleted_count |-> 0,
                     error_count |-> 0, log |-> <<>>,
                     read |-> IF db_up THEN "ok" ELSE "raised",
                     run |-> IF call.op = "check_and_delete_posts"
                             THEN (call.run + 1) % 2 ELSE 0]
    /\ UNCHANGED <<store, now, ticks, platform, trig, lastReq, resp, inline>>

NextCleanupLive ==
    \/ CleanupLiveStart
    \/ CleanupRunPost
    \/ CleanupRunEnd

\* the interval trigger starts the job again every CLEANUP_JOB_MINUTES, and
\* a started run goes through its batch: every call it makes comes back
CleanupLiveSpec ==
    CleanupLiveInit /\ [][NextCleanupLive]_vars
        /\ WF_vars(CleanupLiveStart)
        /\ WF_vars(CleanupRunPost)
        /\ WF_vars(CleanupRunEnd)

---------------------------------------------------------------------------
(* One scheduler's trigger job at work on a table with several due posts.  *)
(* A started run keeps running: the job's thread is not cancelled.         *)

\* tables of scheduled posts that are due at minute 0 or 1 and have their
\* media staged in R2
DueTables ==
    {t \in UNION {DueTablesOfLen(len) : len \in 0..MaxRows} :
        \A n \in DOMAIN t :
            /\ t[n].status = "scheduled"
            /\ t[n].media_paths.entries[1].r2_url}

TriggerRunInit ==
    /\ store \in DueTables
    /\ now = 1
    /\ ticks = 0
    /\ platform = [id \in 1..MaxRows |-> 0]
    /\ trig = [r \in Runs |-> TrigIdle]
    /\ clean = CleanIdle
    /\ lastReq = NoRequest
    /\ resp = HTTPException(0)
    /\ inline = {}
    /\ call = NoCall

NextTriggerRun ==
    \/ \E r \in Runs : TriggerStart(r)
    \/ \E r \in Runs : TriggerPost(r)
    \/ \E r \in Runs : TriggerEnd(r)

TriggerRunSpec ==
    /\ TriggerRunInit
    /\ [][NextTriggerRun]_vars
    /\ \A r \in Runs : WF_vars(TriggerPost(r)) /\ WF_vars(TriggerEnd(r))

---------------------------------------------------------------------------
(* The body of the trigger loop for one post, with the publish call it     *)
(* makes: which client function, with which URLs, and the requests that    *)
(* function sends.  A URL is named by the index of its media entry.        *)

DispatchTypes == {"static", "carousel", "carousel_3", "video", "story"}

\* lines 140-148: the client function and its image_urls / URL argument
dispatch(pt, urls) ==
    LET method == publish_method(pt)
    IN  [method |-> method,
         args |-> IF method = "publish_carousel" THEN urls
                  ELSE IF method = "unsupported" THEN <<>>
                  ELSE <<urls[1]>>]

\* the id the Graph API gives the container created for a URL
container_id(url) == [container_of |-> url]

\* child_ids after the loop of publish_carousel went through:
\* child_ids.append(cid) per URL, then ",".join(child_ids)
children_param(image_urls) ==
    [k \in DOMAIN image_urls |-> container_id(image_urls[k])]

\* what the chosen client function does with its arguments
client_call(method, args, responses) ==
    IF method = "publish_photo" THEN publish_photo(TRUE, responses)
    ELSE IF method = "publish_video" THEN publish_video(TRUE, responses)
    ELSE publish_carousel(TRUE, Len(args), responses)

\* the URL of each request that creates a container, in the order sent
created_for(args, calls) ==
    [k \in 1..Cardinality({j \in DOMAIN calls :
                              calls[j].kind \notin {"parent", "publish"}}) |->
        args[calls[k].url]]

ProcessPostCall ==
    /\ call = NoCall
    /\ \E post_type \in DispatchTypes, len \in 1..(MaxChildren + 1) :
       \E entries \in [1..len -> [uploaded_file_id : {TRUE}, r2_url : BOOLEAN]],
          drive_ok \in [1..len -> BOOLEAN],
          responses \in [1..(len + 2) -> {"ok_id", "error_status"}],
          db_up \in BOOLEAN :
         LET row == [DueRow(1, 1, TRUE, "scheduled")
                        EXCEPT !.post_type = post_type,
                               !.media_paths = MediaList(entries)]
             urls == insta_urls(post_type, entries, drive_ok)
             d == IF Len(urls) = 0
                  THEN [method |-> "skipped", args |-> <<>>]
                  ELSE dispatch(post_type, urls)
             sent == IF d.method \in {"skipped", "unsupported"}
                     THEN [calls |-> <<>>, result |-> "not_called"]
                     ELSE client_call(d.method, d.args, responses)
             res == process_post(row, drive_ok,
                        IF sent.result = "true" THEN "returned_true"
                        ELSE "returned_false", db_up)
         IN  call' = [op |-> "process_post",
                      post_type |-> post_type,
                      entries |-> entries,
                      drive_ok |-> drive_ok,
                      urls |-> urls,
                      method |-> d.method,
                      args |-> d.args,
                      requests |-> sent.calls,
                      created |-> created_for(d.args, sent.calls),
                      children |->
                          IF \E j \in DOMAIN sent.calls :
                                 sent.calls[j].kind = "parent"
                          THEN children_param(d.args) ELSE <<>>,
                      result |-> sent.result,
                      status |-> IF res.write THEN "triggered"
                                 ELSE row.status]
    /\ UNCHANGED <<store, now, ticks, platform, trig, clean, lastReq, resp, inline>>

NextDispatch ==
    \/ ProcessPostCall

DispatchSpec == Init /\ [][NextDispatch]_vars

---------------------------------------------------------------------------
(* Steps and helpers used by the properties *)

Range(q) == {q[i] : i \in DOMAIN q}

\* a run of the trigger job reads its batch
StartStep(r) == trig[r].pc = "idle" /\ trig'[r].pc = "loop"

\* a run of the trigger job executes one iteration of its loop
IterStep(r) ==
    /\ trig[r].pc = "loop"
    /\ trig'[r].pc = "loop"
    /\ trig'[r].i = trig[r].i + 1

\* schedule_post handles a request (a request that changes neither the
\* table nor the recorded outcomes is a stuttering step)
ScheduleStep ==
    /\ lastReq'.endpoint = "schedule"
    /\ lastReq' # lastReq \/ Len(store') # Len(store)

\* a run of the cleanup job reads its batch
CleanStartStep == clean.pc = "idle" /\ clean'.pc = "loop"

\* a run of the cleanup job executes one iteration of its loop
CleanIterStep ==
    /\ clean.pc = "loop"
    /\ clean'.pc = "loop"
    /\ clean'.i = clean.i + 1

\* scheduled and older than the delay
Expired(row, t) ==
    /\ row.status = "scheduled"
    /\ row.scheduled_time < t - DELETE_DELAY_HOURS * MINUTES_PER_HOUR

InTriggerWindow(row, t) ==
    /\ row.scheduled_time >= t - TRIGGER_WINDOW_MINUTES
    /\ row.scheduled_time <= t

---------------------------------------------------------------------------
(* C1: once a trigger pass has published a post and set its status to      *)
(* triggered, no later pass selects the post or calls the Publish Target   *)
(* Client for it, whatever the clock shows.                                *)

C1_TriggeredNeverSelectedAgain ==
    [][\A id \in DOMAIN store :
          store[id].status = "triggered" =>
            \A r \in Runs :
              /\ StartStep(r) => id \notin Range(trig'[r].batch)
              /\ (IterStep(r) /\ trig[r].batch[trig[r].i] = id)
                     => trig'[r].pub = "not_called"]_vars

\* a later pass has read its batch while a triggered post was still inside
\* the time window of the query, and the batch leaves the post out
C1_Witness ==
    \E id \in DOMAIN store, r \in Runs :
        /\ store[id].status = "triggered"
        /\ platform[id] = 1
        /\ InTriggerWindow(store[id], now)
        /\ trig[r].pc = "loop"
        /\ id \notin Range(trig[r].batch)

(* C2: over any sequence of non-overlapping trigger runs with failing      *)
(* external calls, the platform publishes each post at most once.          *)

C2_PublishedAtMostOnce == \A id \in PostIds : platform[id] <= 1

(* C3: every post that is scheduled and due (scheduled_time <= now) is in  *)
(* the batch of the next trigger run, in ascending scheduled_time order,   *)
(* also after missed or late ticks.                                        *)

C3_AllDuePostsSelected ==
    [][\A r \in Runs :
          StartStep(r) =>
            /\ Range(trig'[r].batch) =
                 {id \in DOMAIN store :
                     /\ store[id].status = "scheduled"
                     /\ store[id].scheduled_time <= now}
            /\ \A i, j \in DOMAIN trig'[r].batch :
                 i < j => store[trig'[r].batch[i]].scheduled_time
                            <= store[trig'[r].batch[j]].scheduled_time]_vars

(* C4: under any interleaving of the trigger job, the cleanup job and the  *)
(* calendar handler, the status of a post that is not scheduled never      *)
(* changes again.                                                          *)

C4_StatusTerminalOnceLeft ==
    [][\A id \in DOMAIN store :
          store[id].status # "scheduled"
              => store'[id].status = store[id].status]_vars

(* C5: when the archive backend is unreachable, schedule_post still        *)
(* persists a scheduled post and answers with a success response that      *)
(* carries a synthetic folder reference, a synthetic event reference and   *)
(* webhook_sent = false.                                                   *)

C5_SoftFailOnUpload ==
    (lastReq.upload = "unreachable" /\ lastReq.db = "ok") =>
        /\ resp.status_code = 200
        /\ resp.folder_id.kind = "no_drive"
        /\ resp.event_id.kind = "no_calendar"
        /\ resp.webhook_sent = FALSE
        /\ Len(store) > 0
        /\ store[Len(store)].status = "scheduled"

(* C6: when persisting the post fails, schedule_post answers with an error *)
(* (never a success response) and the table holds no row of that request.  *)

C6_PersistFailureIsFatal ==
    [][(ScheduleStep /\ lastReq'.db = "fail") =>
          /\ resp'.status_code = 500
          /\ store' = store]_vars

\* a request whose insert failed has been answered
C6_Witness ==
    /\ lastReq.db = "fail"
    /\ lastReq.upload = "ok"
    /\ resp.status_code = 500
    /\ Len(store) = 0

(* C7: when a selected media reference resolves to nothing during the      *)
(* upload, the request is aborted with an error and no row is persisted.   *)

C7_MissingMediaAbortsRequest ==
    [][(ScheduleStep /\ lastReq'.upload = "missing") =>
          /\ resp'.status_code = 500
          /\ store' = store]_vars

(* C8: in an iteration of the trigger loop the status of the post becomes  *)
(* triggered if and only if the Publish Target Client returned success for *)
(* it; after a failed publish (returned false or raised) the iteration     *)
(* leaves the status as it was.                                            *)

C8_TriggeredIffPublishSucceeded ==
    [][\A r \in Runs :
          IterStep(r) =>
            LET id == trig[r].batch[trig[r].i]
            IN  /\ (trig'[r].pub = "returned_true")
                     <=> (store'[id].status = "triggered")
                /\ trig'[r].pub \in {"returned_false", "raised"}
                     => store'[id].status = store[id].status]_vars

(* C9: when the publish of a post fails in one tick (the client returned  *)
(* false or raised) and the post is still scheduled, the tick one minute   *)
(* later selects the post again.                                           *)

C9_SelectedAgainNextTick ==
    [][\A r \in Runs :
          IterStep(r) =>
            LET id == trig[r].batch[trig[r].i]
            IN  ( /\ trig'[r].pub \in {"returned_false", "raised"}
                  /\ InTriggerWindow(store[id], now)
                  /\ store'[id].status = "scheduled" )
                  => \E b \in find_posts_to_trigger(store', now + 1) :
                        id \in Range(b)]_vars

(* C11: a post that webhook_schedule published inline is never handed to   *)
(* the Publish Target Client by the trigger job afterwards.                *)

C11_InlinePublishedNeverTriggered ==
    [][\A r \in Runs :
          (IterStep(r) /\ trig[r].batch[trig[r].i] \in inline)
              => trig'[r].pub = "not_called"]_vars

(* C12: every URL the trigger job passes to the Publish Target Client for  *)
(* a static or carousel post was produced by the image normaliser, also    *)
(* when the media entry already carries an R2 URL.                         *)

C12_ImageUrlsNormalized ==
    [][\A r \in Runs :
          IterStep(r) =>
            LET row == store[trig[r].batch[trig[r].i]]
            IN  ( /\ trig'[r].pub # "not_called"
                  /\ publish_method(row.post_type)
                        \in {"publish_photo", "publish_carousel"} )
                  => \A i \in DOMAIN row.media_paths.entries :
                       \A drive_ok \in BOOLEAN :
                         LET m == prepare_media(row.post_type,
                                     row.media_paths.entries[i], drive_ok)
                         IN  m.url => m.normalized]_vars

(* C13: the cleanup job processes exactly the posts that are scheduled and *)
(* older than the delay: a run selects exactly those posts, an iteration   *)
(* changes nothing but the status of the post it processes, which becomes  *)
(* deleted unless the deletion failed, and a post that is not scheduled or *)
(* not older than the delay is left unchanged.                             *)

C13_CleanupProcessesExactlyExpired ==
    [][/\ CleanStartStep =>
             Range(clean'.batch) =
                 {id \in DOMAIN store : Expired(store[id], now)}
       /\ CleanIterStep =>
             \A id \in DOMAIN store :
                IF id = clean.batch[clean.i] /\ Expired(store[id], now)
                THEN \/ store'[id] = store[id]
                     \/ store'[id] = [store[id] EXCEPT !.status = "deleted"]
                ELSE store'[id] = store[id]]_vars

(* C10: when no media entry of a selected post gives a usable URL (also    *)
(* when the post was persisted without media entries), the iteration does  *)
(* not call the Publish Target Client and does not change the status.      *)

C10_NoUrlNoPublish ==
    [][\A r \in Runs :
          (IterStep(r) /\ trig'[r].urls = 0) =>
            /\ trig'[r].pub = "not_called"
            /\ store' = store
            /\ platform' = platform]_vars

\* an iteration has handled a post that was persisted without media
\* entries: no call was made and the post is still scheduled
C10_Witness ==
    \E r \in Runs :
        /\ trig[r].pc = "loop"
        /\ trig[r].i > 1
        /\ trig[r].urls = 0
        /\ trig[r].pub = "not_called"
        /\ LET id == trig[r].batch[trig[r].i - 1]
           IN  /\ store[id].media_paths.null
               /\ store[id].status = "scheduled"
               /\ platform[id] = 0

(* C14: when the event fetch of the calendar handler returns not found,    *)
(* every post whose event reference equals the notification's identifier   *)
(* and whose status is scheduled becomes cancelled, and no other post      *)
(* changes.                                                                *)

C15_OtherOutcomesChangeNothing ==
    (call.op = "calendar_webhook" /\ call.fetch # "not_found") =>
        store = call.before

\* the fetch failed with another HTTP error for the event of a scheduled
\* post, which is still scheduled
C15_Witness ==
    /\ call.op = "calendar_webhook"
    /\ call.fetch = "http_error"
    /\ call.db = "ok"
    /\ \E id \in DOMAIN store :
          /\ store[id].google_calendar_event_id = call.resource_id
          /\ store[id].status = "scheduled"

(* C16: the calendar endpoint answers 200 for every notification and every *)
(* outcome of handling it.                                                 *)

C16_AlwaysAcknowledged ==
    call.op = "calendar_webhook" => call.status_code = 200

\* the operations of the Publish Target Client
GraphOps == {"publish_photo", "publish_video", "publish_carousel"}

(* C17: publish_photo, publish_carousel and publish_video never raise to   *)
(* the caller; every failure, a network error or timeout included, is      *)
(* returned as (False, reason).                                            *)

C17_ClientNeverRaises ==
    call.op \in GraphOps => call.result # "raised"

(* C18: publish_photo returns failure if either of its two HTTP calls      *)
(* returns a non-success status or a response without the expected id      *)
(* field, and makes the publish call only after a container id was         *)
(* obtained.                                                               *)

C18_PhotoFailsOnBadResponse ==
    (call.op = "publish_photo" /\ call.configured) =>
        /\ (\E k \in DOMAIN call.calls :
               call.responses[k]
                  \in {"error_status", "ok_no_id", "ok_no_json"})
              => call.result = "false"
        /\ (\E k \in DOMAIN call.calls : call.calls[k].kind = "publish")
              => call.responses[1] = "ok_id"

(* C18 as amended: publish_photo returns failure if the create call        *)
(* returns a status other than 200/201, no JSON body or no id, or if the   *)
(* publish call returns a status other than 200/201; the body of the       *)
(* publish response is not examined, so a 200/201 publish response counts  *)
(* as success also without an id.  The publish call is made only after a   *)
(* container id was obtained.                                              *)

C18_PhotoFailsOnBadCreateOrPublishStatus ==
    (call.op = "publish_photo" /\ call.configured) =>
        /\ call.responses[1] \in {"error_status", "ok_no_id", "ok_no_json"}
              => /\ call.result = "false"
                 /\ Len(call.calls) = 1
        /\ (call.responses[1] = "ok_id" /\ call.responses[2] = "error_status")
              => call.result = "false"
        /\ ( /\ call.responses[1] = "ok_id"
             /\ call.responses[2] \in {"ok_id", "ok_no_id", "ok_no_json"} )
              => call.result = "true"
        /\ (\E k \in DOMAIN call.calls : call.calls[k].kind = "publish")
              => call.responses[1] = "ok_id"

\* the publish call answered 200 without an id and the photo counts as
\* published
C18_Witness ==
    /\ call.op = "publish_photo"
    /\ call.configured
    /\ call.responses = <<"ok_id", "ok_no_id">>
    /\ Len(call.calls) = 2
    /\ call.result = "true"

(* C19: publish_carousel fails fast: after the first child container that  *)
(* cannot be created (non-success status or no id) it makes no further     *)
(* child call, no parent call and no publish call, and returns failure.    *)

C19_CarouselFailsFast ==
    (call.op = "publish_carousel" /\ call.configured) =>
        \A k \in 1..call.n :
           ( /\ call.responses[k]
                   \in {"error_status", "ok_no_id", "ok_no_json"}
             /\ \A j \in 1..(k - 1) : call.responses[j] = "ok_id" )
             => /\ call.result = "false"
                /\ Len(call.calls) = k
                /\ \A j \in 1..k : call.calls[j] = GraphCall("child", j)

\* the first of two children could not be created: one call was made
C19_Witness ==
    /\ call.op = "publish_carousel"
    /\ call.configured
    /\ call.n = 2
    /\ call.responses[1] = "ok_no_id"
    /\ call.responses[2] = "ok_id"
    /\ call.calls = <<GraphCall("child", 1)>>
    /\ call.result = "false"

\* the sources an entry offers, and their priority
Offers(entry, source) ==
    \/ source = "r2" /\ entry.r2_url = "http"
    \/ source = "drive" /\ entry.uploaded_file_id
    \/ source = "http" /\ entry.requested_path = "http"
    \/ source = "local" /\ entry.requested_path = "local"

Priority == [r2 |-> 1, drive |-> 2, http |-> 3, local |-> 4]

(* C20: get_media_bytes tries the sources in the order R2 URL, Drive file, *)
(* requested_path as URL, requested_path as local file; it returns the     *)
(* bytes of the first source that succeeds and raises only when none does. *)
(* An entry with a reachable R2 URL and a Drive file id resolves from R2   *)
(* without the Drive being contacted.                                      *)

C20_ResolutionPriority ==
    call.op = "get_media_bytes" =>
        LET offered == {s \in Sources : Offers(call.entry, s)}
            good == {s \in offered : call.reach[s]}
            tried == {call.contacted[k] : k \in DOMAIN call.contacted}
        IN  /\ (call.source = "raised") <=> (good = {})
            /\ good # {} =>
                  /\ call.source \in good
                  /\ \A s \in good : Priority[call.source] <= Priority[s]
                  /\ tried = {s \in offered :
                                 Priority[s] <= Priority[call.source]}
            /\ good = {} => tried = offered
            /\ \A j, k \in DOMAIN call.contacted :
                  j < k => Priority[call.contacted[j]]
                             < Priority[call.contacted[k]]
            /\ ( /\ call.entry.r2_url = "http"
                 /\ call.entry.uploaded_file_id
                 /\ call.reach["r2"] )
                  => /\ call.source = "r2"
                     /\ "drive" \notin tried

\* an entry with R2 URL and Drive file id, both reachable, was resolved
\* from R2 alone
C20_Witness ==
    /\ call.op = "get_media_bytes"
    /\ call.entry.r2_url = "http"
    /\ call.entry.uploaded_file_id
    /\ call.reach["r2"]
    /\ call.reach["drive"]
    /\ call.source = "r2"
    /\ call.contacted = <<"r2">>

---------------------------------------------------------------------------
(* C21: for every input image (width >= 1, height >= 1) the image produced *)
(* by the resize and crop steps of validate_and_prepare_image has a width  *)
(* between 320 and 1440 pixels inclusive.                                  *)
C21_WidthWithinLimits ==
    (Normalizing /\ ~call.image.raised) =>
        /\ call.image.width >= MIN_WIDTH
        /\ call.image.width <= MAX_WIDTH

---------------------------------------------------------------------------
(* C22: for every input image (width >= 1, height >= 1) the resize and     *)
(* crop steps complete without error, and the ratio width / height of the  *)
(* result lies in [0.8, 1.91] up to one pixel of rounding (widening the    *)
(* width by one pixel reaches 0.8, narrowing it by one reaches 1.91).      *)
C22_RatioWithinLimits ==
    Normalizing =>
        /\ ~call.image.raised
        /\ (call.image.width + 1) * MIN_RATIO_DEN
               >= call.image.height * MIN_RATIO_NUM
        /\ (call.image.width - 1) * MAX_RATIO_DEN
               <= call.image.height * MAX_RATIO_NUM

---------------------------------------------------------------------------
(* C23: the JPEG encoding loop always terminates.  It starts at quality    *)
(* 95; it saves again, with quality floor(quality * 0.85), only after a    *)
(* save that was over 8 MiB at a quality above 40; it stops as soon as a   *)
(* save is within the budget or was made at quality 40 or less (an         *)
(* oversized file is accepted there); the quality never goes below 40.     *)
C23_EncodingLoopTerminates ==
    /\ [](Normalizing => /\ call.quality >= QUALITY_FLOOR
                         /\ call.quality <= START_QUALITY
                         /\ (call.saves = 0 => call.quality = START_QUALITY))
    /\ [][(Normalizing /\ call.pc = "encode" /\ call'.pc = "encode") =>
              /\ ~call'.size_ok
              /\ call.quality > QUALITY_FLOOR
              /\ call'.quality * QUALITY_FACTOR_DEN
                     <= call.quality * QUALITY_FACTOR_NUM
              /\ (call'.quality + 1) * QUALITY_FACTOR_DEN
                     > call.quality * QUALITY_FACTOR_NUM]_vars
    /\ [][(Normalizing /\ call.pc = "encode"
              /\ (call'.size_ok \/ call.quality <= QUALITY_FLOOR)) =>
              /\ call'.pc = "upload"
              /\ call'.quality = call.quality]_vars
    /\ ((Normalizing /\ call.pc = "encode")
            ~> (Normalizing /\ call.pc = "upload"))

\* the loop ran down to the floor and accepted an oversized file there
C23_Witness ==
    /\ Normalizing
    /\ call.pc = "upload"
    /\ ~call.size_ok
    /\ call.quality = QUALITY_FLOOR
    /\ call.saves > 1

---------------------------------------------------------------------------
(* C24: reading the due posts and marking a post triggered are not one     *)
(* atomic step: the read writes nothing, so a run that reads while another *)
(* run holds a due post it has not marked yet selects that post as well,   *)
(* and both runs can publish it.                                           *)
C24_OverlappingRunsSelectSamePost ==
    [][\A r \in Workers : StartStep(r) =>
          /\ store' = store
          /\ \A q \in Workers \ {r} : \A id \in DOMAIN store :
                (/\ trig[q].pc = "loop"
                 /\ \E k \in DOMAIN trig[q].batch : trig[q].batch[k] = id
                 /\ store[id].status = "scheduled") =>
                    \E k \in DOMAIN trig'[r].batch : trig'[r].batch[k] = id]_vars

\* both runs have just published the same post: the second read it before
\* the first marked it
C24_Witness ==
    \E id \in DOMAIN store :
        /\ platform[id] = 2
        /\ \A r \in Workers :
              /\ trig[r].pc = "loop"
              /\ trig[r].i > 1
              /\ trig[r].batch[trig[r].i - 1] = id
              /\ trig[r].pub = "returned_true"

---------------------------------------------------------------------------
(* C25: for every retries count and every sequence of outcomes of func,    *)
(* retry either returns the result of a call it made to func or raises     *)
(* the exception that the last call it made to func raised.                *)
C25_ReturnsResultOrRaisesLast ==
    call.op = "retry" =>
        \/ /\ call.kind = "returned"
           /\ call.calls >= 1
           /\ call.outcomes[call.calls].kind = "returns"
           /\ call.outcomes[call.calls].value = call.value
        \/ /\ call.kind = "raised"
           /\ call.calls >= 1
           /\ call.outcomes[call.calls].kind \in {"raises", "raises_other"}
           /\ call.outcomes[call.calls].value = call.value

---------------------------------------------------------------------------
(* C26: schedule_post never invokes the Publish Target Client: handling a  *)
(* request publishes nothing, every success response carries              *)
(* webhook_sent = false and a pending status, and a post is published only *)
(* by an iteration of a trigger run, after it was stored.                  *)
C26_ScheduleNeverPublishes ==
    /\ [][ScheduleStep =>
              /\ platform' = platform
              /\ (resp'.status_code = 200 =>
                     /\ ~resp'.webhook_sent
                     /\ resp'.webhook_status = "pending")]_vars
    /\ [][platform' # platform => \E r \in Runs : IterStep(r)]_vars
    /\ [](\A id \in PostIds : platform[id] > 0 => id \in DOMAIN store)

\* a request was answered with success and the post was published later
C26_Witness ==
    /\ lastReq.endpoint = "schedule"
    /\ resp.status_code = 200
    /\ ~resp.webhook_sent
    /\ \E id \in DOMAIN store : platform[id] = 1

---------------------------------------------------------------------------
\* the cleanup job has dealt with one more post of its batch
PostCleanedStep ==
    /\ call.op = "check_and_delete_posts"
    /\ call'.op = "check_and_delete_posts"
    /\ Len(call'.log) = Len(call.log) + 1

---------------------------------------------------------------------------
---------------------------------------------------------------------------
(* C28: in a cleanup run a deletion failure on one post (the folder could  *)
(* not be deleted: the Drive call raised or was answered with an error     *)
(* other than not found) is caught and counted as an error for that post,  *)
(* the post stays scheduled, and the job goes on with the batch.           *)
C28_DeletionFailureIsolated ==
    [][(PostCleanedStep
           /\ call'.log[Len(call'.log)].drive \in {"raised", "http_error"}) =>
          /\ call'.error_count = call.error_count + 1
          /\ call'.deleted_count = call.deleted_count
          /\ store'[clean.batch[clean.i]].status = "scheduled"
          /\ CleanIterStep /\ clean'.batch = clean.batch]_vars

---------------------------------------------------------------------------
(* C29: in a trigger run the selected posts are processed one at a time in *)
(* ascending scheduled_time order, and a failure or exception while        *)
(* processing one post does not prevent any later post of the batch from   *)
(* being processed: the batch is read in ascending order, an iteration     *)
(* touches only the post at the loop position and always moves on to the   *)
(* next position whatever the publish call did, and the run ends only      *)
(* behind the last post, which it always reaches.                          *)
C29_BatchProcessedInOrder ==
    /\ [][\A r \in Runs : StartStep(r) =>
              \A i, j \in DOMAIN trig'[r].batch :
                  i < j => store[trig'[r].batch[i]].scheduled_time
                               <= store[trig'[r].batch[j]].scheduled_time]_vars
    /\ [][\A r \in Runs : (trig[r].pc = "loop" /\ trig'[r] # trig[r]) =>
              IF trig[r].i <= Len(trig[r].batch)
              THEN /\ IterStep(r)
                   /\ trig'[r].batch = trig[r].batch
                   /\ \A id \in DOMAIN store : id # trig[r].batch[trig[r].i] =>
                          /\ store'[id] = store[id]
                          /\ platform'[id] = platform[id]
              ELSE /\ trig'[r] = TrigIdle
                   /\ store' = store
                   /\ platform' = platform]_vars
    /\ \A r \in Runs : \A k \in 1..MaxRows :
          (trig[r].pc = "loop" /\ trig[r].i = k /\ k <= Len(trig[r].batch))
              ~> (trig[r].pc = "loop" /\ trig[r].i = k + 1)

\* the publish of the earlier post failed or raised (it stays scheduled,
\* the platform never published it) and the later post of the same batch
\* was published all the same
C29_Witness ==
    \E r \in Runs :
        /\ trig[r].pc = "loop"
        /\ Len(trig[r].batch) = 2
        /\ trig[r].i = 3
        /\ store[trig[r].batch[1]].scheduled_time
               < store[trig[r].batch[2]].scheduled_time
        /\ store[trig[r].batch[1]].status = "scheduled"
        /\ platform[trig[r].batch[1]] = 0
        /\ store[trig[r].batch[1]].media_paths.entries[1].r2_url
        /\ trig[r].pub = "returned_true"
        /\ store[trig[r].batch[2]].status = "triggered"

---------------------------------------------------------------------------
(* C30: after the trigger job has finished processing a post, no local     *)
(* temp file created while normalizing that post's media remains, whether  *)
(* the image was uploaded or the upload raised.                            *)
C30_NoTempFileLeft ==
    (Normalizing /\ call.pc = "post_done") => ~call.tmp_file

---------------------------------------------------------------------------
(* C31: the trigger job chooses the publish operation from post_type       *)
(* alone.  For a post with at least one resolved URL: static calls         *)
(* publish_photo with the first URL, a carousel type calls                 *)
(* publish_carousel with all URLs, video calls publish_video with the      *)
(* first URL; for any other post_type no request is sent and the status    *)
(* stays scheduled.                                                        *)
C31_DispatchByPostType ==
    (call.op = "process_post" /\ Len(call.urls) > 0) =>
        /\ call.post_type = "static" =>
              call.method = "publish_photo" /\ call.args = <<call.urls[1]>>
        /\ call.post_type \in CarouselTypes =>
              call.method = "publish_carousel" /\ call.args = call.urls
        /\ call.post_type = "video" =>
              call.method = "publish_video" /\ call.args = <<call.urls[1]>>
        /\ call.post_type \notin {"static", "video"} \cup CarouselTypes =>
              /\ call.method = "unsupported"
              /\ call.requests = <<>>
              /\ call.status = "scheduled"
        /\ call.method \in {"publish_photo", "publish_video"} =>
              /\ Len(call.requests) >= 1
              /\ call.created = call.args

\* a video post with two resolved URLs: publish_video got the first one
C31_Witness ==
    /\ call.op = "process_post"
    /\ call.post_type = "video"
    /\ Len(call.urls) = 2
    /\ call.method = "publish_video"
    /\ call.args = <<call.urls[1]>>
    /\ call.result = "true"
    /\ call.status = "triggered"

---------------------------------------------------------------------------
(* C35: the URLs passed to publish_carousel follow the order of the stored *)
(* media entries: the entries that gave no URL are dropped and the others  *)
(* keep their relative order; publish_carousel creates the children in     *)
(* that order and lists their ids in the parent in the same order.         *)
C35_CarouselKeepsEntryOrder ==
    (call.op = "process_post" /\ call.method = "publish_carousel") =>
        /\ \A j, k \in DOMAIN call.args : j < k => call.args[j] < call.args[k]
        /\ {call.args[k] : k \in DOMAIN call.args}
              = {i \in DOMAIN call.entries :
                    prepare_media(call.post_type, call.entries[i],
                                  call.drive_ok[i]).url}
        /\ Len(call.created) <= Len(call.args)
        /\ \A k \in DOMAIN call.created : call.created[k] = call.args[k]
        /\ call.children # <<>> =>
              /\ call.created = call.args
              /\ Len(call.children) = Len(call.args)
              /\ \A k \in DOMAIN call.children :
                    call.children[k] = container_id(call.args[k])

\* three entries, the second gave no URL: the children are those of the
\* first and the third entry, in that order
C35_Witness ==
    /\ call.op = "process_post"
    /\ call.method = "publish_carousel"
    /\ Len(call.entries) = 3
    /\ ~call.entries[1].r2_url
    /\ call.entries[3].r2_url
    /\ call.args = <<1, 3>>
    /\ call.created = <<1, 3>>
    /\ call.children = <<container_id(1), container_id(3)>>
    /\ call.result = "true"

---------------------------------------------------------------------------
(* C32: in schedule_post the calendar event is only attempted after the    *)
(* upload returned a real folder reference; when the upload failed no      *)
(* calendar call is made and the record that is stored carries a synthetic *)
(* folder reference and a synthetic event reference.                       *)
C32_CalendarOnlyAfterUpload ==
    [][ScheduleStep =>
          /\ lastReq'.calendar # "skipped" =>
                /\ lastReq'.upload = "ok"
                /\ lastReq'.db = "ok" =>
                      store'[Len(store')].google_drive_folder_id.kind = "folder"
          /\ lastReq'.upload # "ok" =>
                /\ lastReq'.calendar = "skipped"
                /\ lastReq'.db = "ok" =>
                      /\ Len(store') = Len(store) + 1
                      /\ store'[Len(store')].google_drive_folder_id.kind
                            = "no_drive"
                      /\ store'[Len(store')].google_calendar_event_id.kind
                            = "no_calendar"]_vars

\* a request whose upload failed was stored with both synthetic references
C32_Witness ==
    /\ lastReq.endpoint = "schedule"
    /\ lastReq.upload = "missing"
    /\ lastReq.calendar = "skipped"
    /\ lastReq.db = "ok"
    /\ Len(store) = 1
    /\ store[1].google_drive_folder_id.kind = "no_drive"
    /\ store[1].google_calendar_event_id.kind = "no_calendar"

---------------------------------------------------------------------------
(* C33: retry calls func at most `retries` times, stops at the first call  *)
(* that does not raise and returns the result of that call without a       *)
(* further call, and comes to an end for every finite `retries`.           *)
C33_RetryBoundedAndTerminates ==
    /\ [](call.op = "retry_run" =>
            /\ Len(call.log) <= call.retries
            /\ \A k \in DOMAIN call.log :
                  call.log[k].kind = "returns" =>
                      /\ k = Len(call.log)
                      /\ call.pc = "returned"
                      /\ call.value = call.log[k].value
            /\ call.pc = "returned" =>
                  /\ Len(call.log) >= 1
                  /\ call.log[Len(call.log)].kind = "returns")
    /\ [][call.op = "retry_run" /\ call.pc \in {"returned", "raised"}
             => call' = call]_vars
    /\ (call.op = "retry_run") ~>
          (call.op = "retry_run" /\ call.pc \in {"returned", "raised"})

\* with retries = 3 the second call returned "a" and retry returned it
C33_Witness ==
    /\ call.op = "retry_run"
    /\ call.retries = 3
    /\ call.pc = "returned"
    /\ Len(call.log) = 2
    /\ call.log[1].kind = "raises"
    /\ call.log[2] = [kind |-> "returns", value |-> "a"]
    /\ call.value = "a"

---------------------------------------------------------------------------
(* C34: upload_files_to_drive is all-or-nothing.  Once it has created the  *)
(* post folder it either returns the folder with exactly one entry per     *)
(* selected reference in the order of the selection, or (at least one      *)
(* reference could not be processed) it attempts to delete the folder and  *)
(* raises, returning no folder.                                            *)
(* Violated: when the upload of caption.txt fails after every reference    *)
(* was processed the function raises without a delete attempt.             *)
C34_UploadAllOrNothing ==
    (call.op = "upload_files_to_drive" /\ call.out.folder_created) =>
        \/ /\ ~call.out.raised
           /\ call.out.folder_returned
           /\ Len(call.out.uploaded_media) = Len(call.selected)
           /\ \A k \in DOMAIN call.out.uploaded_media :
                 call.out.uploaded_media[k].selected = k
        \/ /\ call.out.raised
           /\ call.missing_media # <<>>
           /\ call.out.delete_attempted
           /\ ~call.out.folder_returned

---------------------------------------------------------------------------
(* C36: once the calendar notification handler has set a post to           *)
(* cancelled, no run of the trigger job calls the publish client for that  *)
(* post, however the handler and a running trigger job interleave.         *)
(* Violated: a run that read its batch before the cancellation still       *)
(* publishes the post from that batch.                                     *)
C36_NoPublishAfterCancel ==
    [][\A r \in Runs :
          (IterStep(r) /\ trig'[r].pub # "not_called") =>
              store[trig[r].batch[trig[r].i]].status # "cancelled"]_vars

---------------------------------------------------------------------------
(* C37: the cleanup job sets a post to deleted only when the deletion of   *)
(* its archive folder succeeded or the folder was already absent; a folder *)
(* whose deletion failed for another reason is never left behind with its  *)
(* post marked deleted.                                                    *)
(* Violated: an HTTP error other than not found is swallowed by            *)
(* delete_drive_folder and the post is marked deleted.                     *)
C37_DeletedOnlyWhenFolderGone ==
    [][(PostCleanedStep
           /\ store[clean.batch[clean.i]].status # "deleted"
           /\ store'[clean.batch[clean.i]].status = "deleted") =>
          call'.log[Len(call'.log)].drive \in {"deleted", "not_found"}]_vars

---------------------------------------------------------------------------
\* the post with this id is scheduled and older than the delay
ExpiredPost(id) ==
    IF id \in DOMAIN store THEN Expired(store[id], now) ELSE FALSE

\* the post with this id is marked deleted
DeletedPost(id) ==
    IF id \in DOMAIN store THEN store[id].status = "deleted" ELSE FALSE

\* no Drive delete call of the cleanup job raises
FolderDeletionNeverRaises ==
    [](call.op = "check_and_delete_posts" =>
          \A k \in DOMAIN call.log : call.log[k].drive # "raised")

\* the query and the status writes of the cleanup job succeed
StoreAlwaysAnswers ==
    [](call.op = "check_and_delete_posts" =>
          /\ call.read = "ok"
          /\ \A k \in DOMAIN call.log : call.log[k].db_up)

---------------------------------------------------------------------------
(* C39: when schedule_post has ended, with a response or with an error,    *)
(* every archive folder and calendar event it created is referenced by a   *)
(* stored row; no failing step leaves an unreferenced folder or event.     *)
(* Violated: the upload and the calendar call succeed and the insert       *)
(* fails: the folder and the event exist and no row refers to them.        *)
C39_CreatedResourcesReferenced ==
    [][ScheduleStep =>
          /\ lastReq'.upload = "ok" =>
                \E id \in DOMAIN store' :
                    /\ id \notin DOMAIN store
                    /\ store'[id].google_drive_folder_id.kind = "folder"
          /\ lastReq'.calendar = "ok" =>
                \E id \in DOMAIN store' :
                    /\ id \notin DOMAIN store
                    /\ store'[id].google_calendar_event_id.kind = "event"]_vars

====
